---------------------------- MODULE Spec2Model ----------------------------
(***************************************************************************)
(* State-machine model of the thesis-graph editor core:                    *)
(*   - useHistory  (frontend/src/app/hooks/useHistory.ts)                   *)
(*   - GraphCanvas (frontend/src/app/components/GraphCanvas.tsx) together   *)
(*     with the host page callbacks it is wired to (app/page.tsx).          *)
(***************************************************************************)
EXTENDS Integers, Sequences, FiniteSets, TLC

(***************************************************************************)
(* ----------------------------  useHistory  ----------------------------- *)
(***************************************************************************)

VARIABLES
    state,              \* useState<HistoryState<T>>: [past, present, future]
    now,                \* the wall clock read by Date.now()
    lastRecordedTime,   \* useRef<number>(Date.now())
    histOp,             \* observer: the last operation called on the hook
    lastPushTime,       \* observer: clock value when past last grew by a set
    burst               \* observer: the throttled burst in progress, if any

histVars == <<state, now, lastRecordedTime, histOp, lastPushTime, burst>>

VARIABLES
    canvas,      \* GraphCanvas component state (useState and useRef values)
    host,        \* host page state passed down as props: nodes, selected, edgeMode
    mouse,       \* the physical pointer: position, pressed target, pending click
    ev,          \* observer: the last event delivered and the callbacks it invoked
    track,       \* observer: the press / move / release / click sequence in progress
    env          \* outside the page: fetches in flight, ids Math.random has given

canvasVars == <<canvas, host, mouse, ev, track, env>>

VARIABLES
    lay,         \* one call of a layout function of utils/graphLayout.ts
    laid,        \* observer: the layout calls that have returned, in order
    dedup        \* a RequestDeduplicator and the requests it has started

layoutVars == <<lay, laid, dedup>>

\* new RequestDeduplicator(): pendingRequests maps a key to the promise
\* stored for it; inFlight, calls and op are observers: the executions of
\* fn that have not settled, the number of dedupe calls made, the last
\* operation
NoRequests ==
    dedup = [pendingRequests |-> <<>>, inFlight |-> {}, calls |-> 0,
             op |-> [name |-> "new"]]

\* no layout function has been called, no request has been made
NoLayout == lay = [pc |-> "none"] /\ laid = <<>> /\ NoRequests

\* Values of the generic type T.  A value is a JavaScript object, written as
\* the sequence of its <<key, value>> properties in insertion order.
ObjA  == << <<"x", "1">>, <<"y", "2">> >>            \* {x: 1, y: 2}
ObjAr == << <<"y", "2">>, <<"x", "1">> >>            \* {y: 2, x: 1}
ObjB  == << <<"x", "1">> >>                          \* {x: 1}
ObjBu == << <<"x", "1">>, <<"y", "undefined">> >>    \* {x: 1, y: undefined}

States == {ObjA, ObjAr, ObjB, ObjBu}

\* JSON.stringify of an object: properties in insertion order, properties
\* whose value is undefined are left out.  The result stands for the string.
JSONstringify(v) == SelectSeq(v, LAMBDA kv : kv[2] # "undefined")

\* Structural (deep) equality of two objects: the same set of properties
\* with the same values, whatever the insertion order.
DeepEqual(a, b) == {a[i] : i \in DOMAIN a} = {b[i] : i \in DOMAIN b}

THROTTLE_MS == 500

MaxPast == 2        \* cap on Len(state.past) for a recording set
MaxNow  == 1000     \* the clock stops advancing here
Delays  == {250, 500}

\* line 23: !force && now - lastRecordedTime.current < THROTTLE_MS
Throttled(force, t, lastRec) == ~force /\ t - lastRec < THROTTLE_MS

\* the setState updater of set (lines 20-43)
set(cur, newPresent, force, t, lastRec) ==
    IF Throttled(force, t, lastRec)
    THEN [cur EXCEPT !.present = newPresent]
    ELSE IF JSONstringify(cur.present) = JSONstringify(newPresent)
         THEN cur
         ELSE [past    |-> Append(cur.past, cur.present),
               present |-> newPresent,
               future  |-> <<>>]

\* line 31: lastRecordedTime.current = now, reached when not throttled
setTime(force, t, lastRec) ==
    IF Throttled(force, t, lastRec) THEN lastRec ELSE t

\* the setState updater of undo (lines 47-58)
undoMutAppend(cur) ==
    IF Len(cur.past) = 0 THEN cur
    ELSE [past    |-> SubSeq(cur.past, 1, Len(cur.past) - 1),
          present |-> cur.past[Len(cur.past)],
          future  |-> Append(cur.future, cur.present)]

undo(cur) ==
    IF Len(cur.past) = 0 THEN cur
    ELSE [past    |-> SubSeq(cur.past, 1, Len(cur.past) - 1),
          present |-> cur.past[Len(cur.past)],
          future  |-> <<cur.present>> \o cur.future]

\* the setState updater of redo (lines 62-73)
redoMutDropPresent(cur) ==
    IF Len(cur.future) = 0 THEN cur
    ELSE [past    |-> cur.past,
          present |-> cur.future[1],
          future  |-> Tail(cur.future)]

redo(cur) ==
    IF Len(cur.future) = 0 THEN cur
    ELSE [past    |-> Append(cur.past, cur.present),
          present |-> cur.future[1],
          future  |-> Tail(cur.future)]

\* reset (lines 76-82)
resetMutKeepFuture(cur, newPresent) ==
    [past |-> <<>>, present |-> newPresent, future |-> cur.future]

reset(cur, newPresent) ==
    [past |-> <<>>, present |-> newPresent, future |-> <<>>]

canUndo == Len(state.past) > 0
canRedo == Len(state.future) > 0

NoBurst == [phase |-> "none"]

\* The observer of a throttled burst: un-forced sets that each arrive within
\* THROTTLE_MS of the last recorded change, then one forced set whose value
\* differs from the state before the burst, then one undo.
BurstAfterSet(v, force) ==
    IF ~force /\ now - lastPushTime < THROTTLE_MS
    THEN IF burst.phase = "burst"
         THEN burst
         ELSE [phase |-> "burst", base |-> state.present, basePast |-> Len(state.past)]
    ELSE IF force /\ burst.phase = "burst" /\ ~DeepEqual(v, burst.base)
         THEN [burst EXCEPT !.phase = "forced"]
         ELSE NoBurst

\* useHistory(initialState)
HistCreate(initialState) ==
    /\ state = [past |-> <<>>, present |-> initialState, future |-> <<>>]
    /\ now = 0
    /\ lastRecordedTime = 0
    /\ lastPushTime = 0
    /\ histOp = [name |-> "create"]
    /\ burst = NoBurst

Tick ==
    \E d \in Delays :
        /\ now + d <= MaxNow
        /\ now' = now + d
        /\ histOp' = [name |-> "tick"]
        /\ UNCHANGED <<state, lastRecordedTime, lastPushTime, burst>>
        /\ UNCHANGED <<canvasVars, layoutVars>>

Set ==
    \E v \in States, force \in BOOLEAN :
        /\ Len(state.past) < MaxPast
        /\ state' = set(state, v, force, now, lastRecordedTime)
        /\ lastRecordedTime' = setTime(force, now, lastRecordedTime)
        /\ lastPushTime' = IF Len(state'.past) > Len(state.past) THEN now ELSE lastPushTime
        /\ histOp' = [name |-> "set", v |-> v, force |-> force]
        /\ burst' = BurstAfterSet(v, force)
        /\ UNCHANGED now
        /\ UNCHANGED <<canvasVars, layoutVars>>

Undo ==
    /\ state' = undo(state)
    /\ histOp' = [name |-> "undo"]
    /\ burst' = IF burst.phase = "forced" THEN [burst EXCEPT !.phase = "undone"] ELSE NoBurst
    /\ UNCHANGED <<now, lastRecordedTime, lastPushTime>>
    /\ UNCHANGED <<canvasVars, layoutVars>>

Redo ==
    /\ state' = redo(state)
    /\ histOp' = [name |-> "redo"]
    /\ burst' = NoBurst
    /\ UNCHANGED <<now, lastRecordedTime, lastPushTime>>
    /\ UNCHANGED <<canvasVars, layoutVars>>

Reset ==
    \E v \in States :
        /\ state' = reset(state, v)
        /\ histOp' = [name |-> "reset", v |-> v,
                      dropped |-> <<Len(state.past), Len(state.future)>>]
        /\ burst' = NoBurst
        /\ UNCHANGED <<now, lastRecordedTime, lastPushTime>>
        /\ UNCHANGED <<canvasVars, layoutVars>>

HistInit == \E s \in States : HistCreate(s)

HistNext == Tick \/ Set \/ Undo \/ Redo \/ Reset

(***************************************************************************)
(* ----------------------  GraphCanvas and its host  --------------------- *)
(***************************************************************************)


NodeIds == {"n1", "n2", "n3"}
NullId  == "null"                  \* null for a string-valued ref or state
Null    == [null |-> TRUE]         \* null for a point-valued ref or state
Pt(x, y) == [x |-> x, y |-> y]

\* pointer positions (clientX, clientY) the events are drawn from
ClientXs == {100, 104, 110, 250}
ClientYs == {100, 200}
\* node positions and pan offsets a gesture may produce in the model
NodeXs == {100, 104, 110, 250}
NodeYs == {100}
PanXs  == {0, 4}
PanYs  == {0}

\* the svg element's top-left corner in client coordinates
SvgOrigin == Pt(0, 0)

MaxPresses == 3     \* button presses delivered to the canvas in one behaviour

NODE_MIN_WIDTH  == 140
NODE_MIN_HEIGHT == 60

Abs(n) == IF n < 0 THEN -n ELSE n
Min(a, b) == IF a <= b THEN a ELSE b
Max(a, b) == IF a >= b THEN a ELSE b

\* zoom is a double (line 122); the model carries it in thousandths and
\* rounds each product or quotient to the nearest thousandth
ZoomUnit == 1000
Round(n, d) == (2 * n + d) \div (2 * d)

\* zoom in (line 907): Math.min(z * 1.2, 3)
zoomIn(z) == Min(Round(z * 6, 5), 3 * ZoomUnit)

\* zoom out (line 922): Math.max(z / 1.2, 0.1)
zoomOutMutNoClamp(z) == Round(z * 5, 6)

zoomOut(z) == Max(Round(z * 5, 6), ZoomUnit \div 10)

\* reset view (line 937): setZoom(1); setPanX(0); setPanY(0)
resetView(c) == [c EXCEPT !.zoom = ZoomUnit, !.panX = 0, !.panY = 0]

\* where the render transform translate(panX, panY) scale(zoom) of line 566
\* draws a world point, in svg user space, times ZoomUnit
screenOf(c, q) == [x |-> c.panX * ZoomUnit + c.zoom * q.x,
                   y |-> c.panY * ZoomUnit + c.zoom * q.y]

\* ptFromEvent (lines 168-178): the client point through the inverse of the
\* svg element's screen CTM, i.e. in the svg's own user space
ptFromEvent(clientX, clientY) == Pt(clientX - SvgOrigin.x, clientY - SvgOrigin.y)

\* renderedNodes (lines 346-354): pos[n.id]?.x ?? 0
renderedPos(c, id) == IF id \in DOMAIN c.pos THEN c.pos[id] ELSE Pt(0, 0)

\* the on-screen rectangle of a node (lines 566, 793-796): a rect of the
\* minimum node size centred on the node position, inside the group that is
\* translated by (panX, panY) and scaled by zoom; twice the distance is
\* compared so that no half pixel is needed
OverNode(c, id, clientX, clientY) ==
    LET s == screenOf(c, renderedPos(c, id)) IN
    /\ 2 * Abs((clientX - SvgOrigin.x) * ZoomUnit - s.x) <= c.zoom * NODE_MIN_WIDTH
    /\ 2 * Abs((clientY - SvgOrigin.y) * ZoomUnit - s.y) <= c.zoom * NODE_MIN_HEIGHT

\* the element under the pointer: the last-rendered node that contains it
\* (lines 719-752, nodes are painted in array order), else the svg
TargetAt(c, nodes, clientX, clientY) ==
    LET hits == {i \in DOMAIN nodes : OverNode(c, nodes[i].id, clientX, clientY)} IN
    IF hits = {} THEN "svg"
    ELSE nodes[CHOOSE i \in hits : \A j \in hits : j <= i].id

\* position sync effect (lines 129-154), for nodes that carry explicit x/y
\* or already have a position
RECURSIVE syncFrom(_, _, _, _)
syncFrom(nodes, i, next, idx) ==
    IF i > Len(nodes) THEN next
    ELSE LET n == nodes[i] IN
         IF n.id \notin DOMAIN next
         THEN syncFrom(nodes, i + 1,
                       (n.id :> (IF n.xy # <<>> THEN Pt(n.xy[1], n.xy[2])
                                 ELSE Pt(160 + (idx % 5) * 180,
                                         120 + (idx \div 5) * 140))) @@ next,
                       idx + 1)
         ELSE syncFrom(nodes, i + 1,
                       IF n.xy # <<>> THEN [next EXCEPT ![n.id] = Pt(n.xy[1], n.xy[2])]
                       ELSE next,
                       idx)

posSync(prev, nodes) ==
    LET next == syncFrom(nodes, 1, prev, 0)
        live == {nodes[i].id : i \in DOMAIN nodes}
    IN  [id \in (DOMAIN next) \cap live |-> next[id]]

\* commitPositions([id]) payload (lines 159-163)
commitPayload(c, id) == <<[id |-> id, x |-> c.pos[id].x, y |-> c.pos[id].y]>>

\* commitPositions([id]) (lines 157-165): reading pos[id].x throws a
\* TypeError when the position map has no entry for id
commitPositions(c, id) ==
    IF id \in DOMAIN c.pos
    THEN <<[cb |-> "onNodesPosChange", payload |-> commitPayload(c, id)]>>
    ELSE <<[cb |-> "TypeError", id |-> id]>>

\* ---- onNodeMouseDown (lines 180-210) ----
onNodeMouseDown(c, id, shiftKey, clientX, clientY, edgeMode) ==
    LET p   == ptFromEvent(clientX, clientY)
        cur == renderedPos(c, id)
    IN  IF edgeMode
        THEN IF shiftKey
             THEN [c EXCEPT !.edgeDragFrom = id, !.edgeDragPos = cur]
             ELSE IF c.pendingFrom = NullId
                  THEN [c EXCEPT !.pendingFrom = id]
                  ELSE IF c.pendingFrom # id
                       THEN [c EXCEPT !.pendingFrom = NullId]
                       ELSE c
        ELSE [c EXCEPT !.dragId = id,
                       !.dragOffset = [dx |-> p.x - cur.x, dy |-> p.y - cur.y],
                       !.dragStart = p,
                       !.hasDragged = FALSE]

onNodeMouseDownCalls(c, id, shiftKey, edgeMode) ==
    IF edgeMode /\ ~shiftKey /\ c.pendingFrom # NullId /\ c.pendingFrom # id
    THEN <<[cb |-> "onCreateEdge", from |-> c.pendingFrom, to |-> id]>>
    ELSE <<>>

\* ---- onSvgMouseMove (lines 212-253) ----
onSvgMouseMove(c, clientX, clientY) ==
    IF c.isPanning /\ c.panStart # Null
    THEN [c EXCEPT !.panX = clientX - c.panStart.x, !.panY = clientY - c.panStart.y]
    ELSE LET p == ptFromEvent(clientX, clientY) IN
         IF c.lassoStart # Null
         THEN [c EXCEPT !.lassoEnd = p]
         ELSE IF c.edgeDragFrom # NullId
         THEN [c EXCEPT !.edgeDragPos = p]
         ELSE IF c.dragId = NullId
         THEN c
         ELSE LET far == /\ c.dragStart # Null
                         /\ (p.x - c.dragStart.x) * (p.x - c.dragStart.x)
                            + (p.y - c.dragStart.y) * (p.y - c.dragStart.y) > 5 * 5
              IN  [c EXCEPT !.hasDragged = (far \/ @),
                            !.pos = (c.dragId :> Pt(p.x - c.dragOffset.dx,
                                                    p.y - c.dragOffset.dy)) @@ @]

\* ---- onSvgMouseDown (lines 255-270) ----
onSvgMouseDownMutRawStart(c, button, shiftKey, clientX, clientY, onBackground, edgeMode) ==
    IF button = 1 \/ shiftKey
    THEN [c EXCEPT !.isPanning = TRUE, !.panStart = Pt(clientX, clientY)]
    ELSE IF ~edgeMode /\ onBackground
         THEN LET p == ptFromEvent(clientX, clientY) IN
              [c EXCEPT !.lassoStart = p, !.lassoEnd = p]
         ELSE c

onSvgMouseDown(c, button, shiftKey, clientX, clientY, onBackground, edgeMode) ==
    IF button = 1 \/ shiftKey
    THEN [c EXCEPT !.isPanning = TRUE,
                   !.panStart = Pt(clientX - c.panX, clientY - c.panY)]
    ELSE IF ~edgeMode /\ onBackground
         THEN LET p == ptFromEvent(clientX, clientY) IN
              [c EXCEPT !.lassoStart = p, !.lassoEnd = p]
         ELSE c

\* the lasso test of one rendered node (lines 282-289)
InLasso(c, id) ==
    LET q    == renderedPos(c, id)
        minX == Min(c.lassoStart.x, c.lassoEnd.x)
        maxX == Max(c.lassoStart.x, c.lassoEnd.x)
        minY == Min(c.lassoStart.y, c.lassoEnd.y)
        maxY == Max(c.lassoStart.y, c.lassoEnd.y)
    IN  q.x >= minX /\ q.x <= maxX /\ q.y >= minY /\ q.y <= maxY

\* ---- onSvgMouseUp (lines 272-311); onToggleSelect tells whether the
\* optional prop of line 72 was supplied
onSvgMouseUp(c, onToggleSelect) ==
    IF c.isPanning
    THEN [c EXCEPT !.isPanning = FALSE, !.panStart = Null]
    ELSE IF c.lassoStart # Null /\ c.lassoEnd # Null /\ onToggleSelect
    THEN [c EXCEPT !.lassoStart = Null, !.lassoEnd = Null]
    ELSE IF c.edgeDragFrom # NullId
    THEN [c EXCEPT !.edgeDragFrom = NullId, !.edgeDragPos = Null]
    ELSE IF c.dragId # NullId
    THEN [c EXCEPT !.dragId = NullId]
    ELSE c

RECURSIVE lassoToggles(_, _, _)
lassoToggles(c, nodes, i) ==
    IF i > Len(nodes) THEN <<>>
    ELSE (IF InLasso(c, nodes[i].id)
          THEN <<[cb |-> "onToggleSelect", id |-> nodes[i].id]>>
          ELSE <<>>) \o lassoToggles(c, nodes, i + 1)

onSvgMouseUpCalls(c, nodes, onToggleSelect) ==
    IF c.isPanning
    THEN <<>>
    ELSE IF c.lassoStart # Null /\ c.lassoEnd # Null /\ onToggleSelect
    THEN lassoToggles(c, nodes, 1)
    ELSE IF c.edgeDragFrom # NullId
    THEN <<>>
    ELSE IF c.dragId # NullId
    THEN commitPositions(c, c.dragId)
    ELSE <<>>

\* ---- onNodeMouseUp (lines 313-334) ----
onNodeMouseUpCallsMutSelf(c, id) ==
    IF c.edgeDragFrom # NullId
    THEN <<[cb |-> "onCreateEdge", from |-> c.edgeDragFrom, to |-> id]>>
    ELSE IF c.dragId # NullId /\ c.hasDragged
    THEN commitPositions(c, c.dragId)
    ELSE <<>>

onNodeMouseUp(c, id) ==
    IF c.edgeDragFrom # NullId /\ c.edgeDragFrom # id
    THEN [c EXCEPT !.edgeDragFrom = NullId, !.edgeDragPos = Null]
    ELSE IF c.dragId # NullId
    THEN [c EXCEPT !.dragId = NullId]
    ELSE c

onNodeMouseUpCalls(c, id) ==
    IF c.edgeDragFrom # NullId /\ c.edgeDragFrom # id
    THEN <<[cb |-> "onCreateEdge", from |-> c.edgeDragFrom, to |-> id]>>
    ELSE IF c.dragId # NullId /\ c.hasDragged
    THEN commitPositions(c, c.dragId)
    ELSE <<>>

\* ---- onSvgClick (lines 336-343) ----
onSvgClick(c, edgeMode) ==
    LET c1 == IF edgeMode /\ c.pendingFrom # NullId
              THEN [c EXCEPT !.pendingFrom = NullId] ELSE c
    IN  IF c1.edgeDragFrom # NullId
        THEN [c1 EXCEPT !.edgeDragFrom = NullId, !.edgeDragPos = Null]
        ELSE c1

\* ---- node onClick (lines 756-763) ----
nodeOnClickCalls(c, id, onToggleSelect) ==
    IF onToggleSelect /\ ~c.hasDragged /\ c.edgeDragFrom = NullId /\ c.pendingFrom = NullId
    THEN <<[cb |-> "onToggleSelect", id |-> id]>>
    ELSE <<>>

\* ---- host callbacks (page.tsx) ----
\* toggleSelected (lines 497-499)
toggleSelected(selected, id) ==
    (id :> ~(id \in DOMAIN selected /\ selected[id])) @@ selected

\* applyPositions (lines 472-480)
applyPositions(nodes, payload) ==
    [i \in DOMAIN nodes |->
        IF \E k \in DOMAIN payload : payload[k].id = nodes[i].id
        THEN LET k == CHOOSE k \in DOMAIN payload :
                        /\ payload[k].id = nodes[i].id
                        /\ \A m \in DOMAIN payload : payload[m].id = nodes[i].id => m <= k
             IN  [nodes[i] EXCEPT !.xy = <<payload[k].x, payload[k].y>>]
        ELSE nodes[i]]

\* the ids of the node collection
LiveIds(h) == {h.nodes[i].id : i \in DOMAIN h.nodes}

\* the rationale shown when the fetch failed (lines 684-689)
EmptyRationale == [of |-> "empty"]

\* the body of a successful /edge/rationale response: the mechanisms,
\* assumptions and confounders the server returns for the pair it was asked
RationaleFor(from_id, to_id) == [of |-> <<from_id, to_id>>]

\* createEdge line 654
edgeTypeOf(newEdgeRelation) ==
    IF newEdgeRelation = "SUPPORTS" THEN "CAUSES" ELSE "CONTRADICTS"

\* createEdge lines 653-658: the request is dropped
createEdgeRejects(h, from_id, to_id) ==
    \/ from_id = to_id
    \/ \E i \in DOMAIN h.edges :
          /\ h.edges[i].from_id = from_id
          /\ h.edges[i].to_id = to_id
          /\ h.edges[i].type = edgeTypeOf(h.newEdgeRelation)

\* createEdge up to its first await (lines 652-672), or to its end when a
\* node is not found (lines 667-669, 682-692)
createEdge(h, from_id, to_id) ==
    IF createEdgeRejects(h, from_id, to_id) THEN h
    ELSE LET found == from_id \in LiveIds(h) /\ to_id \in LiveIds(h) IN
         [h EXCEPT !.pendingEdge = [from_id |-> from_id, to_id |-> to_id,
                                    type |-> edgeTypeOf(h.newEdgeRelation)],
                   !.edgeRationale = IF found THEN Null ELSE EmptyRationale,
                   !.fetchingRationale = found]

\* the request createEdge leaves in flight (line 672)
createEdgeFetch(h, from_id, to_id) ==
    IF ~createEdgeRejects(h, from_id, to_id)
       /\ from_id \in LiveIds(h) /\ to_id \in LiveIds(h)
    THEN <<[kind |-> "rationale", from_id |-> from_id, to_id |-> to_id]>>
    ELSE <<>>

\* createEdge after its await (lines 681-694): the response, or the failure
rationaleArrives(h, m, ok) ==
    [h EXCEPT !.edgeRationale = IF ok THEN RationaleFor(m.from_id, m.to_id)
                                ELSE EmptyRationale,
              !.fetchingRationale = FALSE]

\* acceptEdge (lines 698-717); the evidence panel it opens is not modelled
acceptEdge(h) ==
    IF h.pendingEdge = Null THEN h
    ELSE [h EXCEPT !.edges = Append(@,
                        [from_id |-> h.pendingEdge.from_id,
                         to_id   |-> h.pendingEdge.to_id,
                         type    |-> h.pendingEdge.type,
                         mechanisms |-> IF h.edgeRationale = Null
                                        THEN EmptyRationale
                                        ELSE h.edgeRationale]),
                   !.pendingEdge = Null,
                   !.edgeRationale = Null]

\* rejectEdge and cancelEdgeModal (lines 756-764)
rejectEdge(h) == [h EXCEPT !.pendingEdge = Null, !.edgeRationale = Null]

\* deleteNode (lines 486-491)
deleteNodeMutKeepInEdges(h, id) ==
    [h EXCEPT !.nodes = SelectSeq(@, LAMBDA n : n.id # id),
              !.edges = SelectSeq(@, LAMBDA e : e.from_id # id),
              !.selected = [k \in (DOMAIN @) \ {id} |-> @[k]]]

deleteNode(h, id) ==
    [h EXCEPT !.nodes = SelectSeq(@, LAMBDA n : n.id # id),
              !.edges = SelectSeq(@, LAMBDA e : e.from_id # id /\ e.to_id # id),
              !.selected = [k \in (DOMAIN @) \ {id} |-> @[k]]]

\* addNode (lines 644-650)
addNode(h, id) ==
    [h EXCEPT !.nodes = Append(@, [id |-> id, xy |-> <<>>]),
              !.selected = (id :> TRUE) @@ @]

\* selectAll (lines 500-504) and selectNone (lines 505-507)
selectAll(h) == [h EXCEPT !.selected = [k \in LiveIds(h) |-> TRUE]]
selectNone(h) == [h EXCEPT !.selected = <<>>]

\* extract up to its await (lines 244-253)
extractStart(h) ==
    [h EXCEPT !.busy = "extract", !.edges = <<>>, !.selected = <<>>]

\* extract after its await (lines 258-271): the response or the failure
extractArrives(h, ok, next) ==
    [h EXCEPT !.nodes = IF ok THEN next ELSE @, !.busy = "idle"]

\* the host's reaction to the callbacks one event handler invoked, in order
RECURSIVE applyCalls(_, _)
applyCalls(h, calls) ==
    IF calls = <<>> THEN h
    ELSE LET k == Head(calls) IN
         applyCalls(
            IF k.cb = "onToggleSelect"
            THEN [h EXCEPT !.selected = toggleSelected(@, k.id)]
            ELSE IF k.cb = "onNodesPosChange"
            THEN [h EXCEPT !.nodes = applyPositions(@, k.payload)]
            ELSE IF k.cb = "onCreateEdge"
            THEN createEdge(h, k.from, k.to)
            ELSE h,
            Tail(calls))

\* the requests the callbacks of one event handler leave in flight
RECURSIVE callFetches(_, _)
callFetches(h, calls) ==
    IF calls = <<>> THEN <<>>
    ELSE LET k == Head(calls) IN
         (IF k.cb = "onCreateEdge" THEN createEdgeFetch(h, k.from, k.to) ELSE <<>>)
         \o callFetches(h, Tail(calls))

\* the component after an event: handler result, then the position sync
\* effect when the nodes prop was replaced
afterRender(c, calls, h2) ==
    IF \E k \in DOMAIN calls : calls[k].cb = "onNodesPosChange"
    THEN [c EXCEPT !.pos = posSync(@, h2.nodes)]
    ELSE c

\* the edge rationale modal and its full-page backdrop are mounted (page.tsx
\* lines 1557-1571): pointer events over the canvas go to the backdrop
ModalOpen(h) == h.pendingEdge # Null

NoTrack == [phase |-> "none"]

\* observer: the edge sources the component held when an event arrived
Held(c) == [pendingFrom |-> c.pendingFrom, edgeDragFrom |-> c.edgeDragFrom]

\* observer helpers: what the callbacks of one event did for node id
TogglesOf(calls, id) ==
    Cardinality({k \in DOMAIN calls : calls[k].cb = "onToggleSelect" /\ calls[k].id = id})
ReportsMove(calls, id) ==
    \E k \in DOMAIN calls :
        /\ calls[k].cb = "onNodesPosChange"
        /\ \E m \in DOMAIN calls[k].payload : calls[k].payload[m].id = id

\* observer: how often one event invoked onCreateEdge(from, to)
EdgeCallsOf(calls, from, to) ==
    Cardinality({k \in DOMAIN calls :
        calls[k].cb = "onCreateEdge" /\ calls[k].from = from /\ calls[k].to = to})

TrackMore(calls) ==
    [track EXCEPT !.toggles = @ + TogglesOf(calls, track.id),
                  !.moved = @ \/ ReportsMove(calls, track.id)]

\* a host with a loaded graph and the canvas mounted on it, seen through
\* the viewport (panX, 0, zoom); onToggleSelect tells whether the host
\* passes that prop
CanvasWith(nodes, edges, panX, zoom, edgeMode, onToggleSelect) ==
    /\ host = [nodes    |-> nodes,
               selected |-> <<>>,
               onToggleSelect    |-> onToggleSelect,
               edgeMode |-> edgeMode,
               edges             |-> edges,
               newEdgeRelation   |-> "SUPPORTS",
               pendingEdge       |-> Null,
               edgeRationale     |-> Null,
               fetchingRationale |-> FALSE,
               busy              |-> "idle"]
    /\ canvas = [pos          |-> posSync(<<>>, host.nodes),
                 pendingFrom  |-> NullId,
                 dragId       |-> NullId,
                 dragOffset   |-> [dx |-> 0, dy |-> 0],
                 dragStart    |-> Null,
                 hasDragged   |-> FALSE,
                 edgeDragFrom |-> NullId,
                 edgeDragPos  |-> Null,
                 lassoStart   |-> Null,
                 lassoEnd     |-> Null,
                 isPanning    |-> FALSE,
                 panStart     |-> Null,
                 panX         |-> panX,
                 panY         |-> 0,
                 zoom         |-> zoom]
    /\ mouse = [x |-> 250, y |-> 200, pressed |-> "none", click |-> "none", presses |-> 0]
    /\ ev = [name |-> "mount", target |-> "svg", calls |-> <<>>]
    /\ track = NoTrack
    /\ env = [inflight |-> <<>>, ids |-> {nodes[i].id : i \in DOMAIN nodes}]

\* the page (page.tsx lines 1285-1292 pass onToggleSelect={toggleSelected})
CanvasAt(nodes, edges, panX, zoom, edgeMode) ==
    CanvasWith(nodes, edges, panX, zoom, edgeMode, TRUE)

CanvasInit ==
    CanvasAt(<<[id |-> "n1", xy |-> <<100, 100>>],
               [id |-> "n2", xy |-> <<250, 100>>]>>, <<>>, 0, ZoomUnit, FALSE)

\* the component state stays on the modelled grid
OnGrid(c) ==
    /\ \A id \in DOMAIN c.pos : c.pos[id].x \in NodeXs /\ c.pos[id].y \in NodeYs
    /\ c.panX \in PanXs /\ c.panY \in PanYs

\* mousemove anywhere over the svg: node groups have no move handler, the
\* event bubbles to the svg (line 533)
MouseMove ==
    \E x \in ClientXs, y \in ClientYs :
        LET c2 == onSvgMouseMove(canvas, x, y) IN
        /\ mouse.click = "none" /\ ~ModalOpen(host)
        /\ <<x, y>> # <<mouse.x, mouse.y>>
        /\ OnGrid(c2)
        /\ canvas' = c2
        /\ mouse' = [mouse EXCEPT !.x = x, !.y = y]
        /\ ev' = [name |-> "mouseMove", target |-> "svg", calls |-> <<>>]
        /\ track' = IF track.phase = "down"
                    THEN [track EXCEPT !.far = @ \/
                            (x - track.px) * (x - track.px)
                            + (y - track.py) * (y - track.py) > 5 * 5]
                    ELSE IF track.phase = "pan" THEN track
                    ELSE NoTrack
        /\ UNCHANGED <<host, env>>
        /\ UNCHANGED <<histVars, layoutVars>>

\* a point of the svg background in the graphs of the model
Background == Pt(250, 200)

\* mousemove that brings the pointer to the centre of a rendered node, or
\* back to the background
PointerOver ==
    \E t \in LiveIds(host) \cup {"svg"} :
        LET s == screenOf(canvas, renderedPos(canvas, t))
            p == IF t = "svg" THEN Background
                 ELSE Pt(SvgOrigin.x + s.x \div ZoomUnit, SvgOrigin.y + s.y \div ZoomUnit)
        IN
        /\ mouse.click = "none" /\ ~ModalOpen(host)
        /\ <<p.x, p.y>> # <<mouse.x, mouse.y>>
        /\ canvas' = onSvgMouseMove(canvas, p.x, p.y)
        /\ mouse' = [mouse EXCEPT !.x = p.x, !.y = p.y]
        /\ ev' = [name |-> "mouseMove", target |-> "svg", calls |-> <<>>]
        /\ track' = NoTrack
        /\ UNCHANGED <<host, env>>
        /\ UNCHANGED <<histVars, layoutVars>>

\* mousedown on a node group (line 752); stopPropagation keeps it from the svg
NodeMouseDown ==
    \E shiftKey \in BOOLEAN, button \in {0, 1} :
        LET id    == TargetAt(canvas, host.nodes, mouse.x, mouse.y)
            calls == onNodeMouseDownCalls(canvas, id, shiftKey, host.edgeMode)
        IN
        /\ mouse.click = "none" /\ mouse.pressed = "none" /\ ~ModalOpen(host)
        /\ mouse.presses < MaxPresses
        /\ id # "svg"
        /\ canvas' = onNodeMouseDown(canvas, id, shiftKey, mouse.x, mouse.y, host.edgeMode)
        /\ host' = applyCalls(host, calls)
        /\ env' = [env EXCEPT !.inflight = @ \o callFetches(host, calls)]
        /\ mouse' = [mouse EXCEPT !.pressed = IF button = 0 THEN id ELSE "aux",
                                  !.presses = @ + 1]
        /\ ev' = [name |-> "nodeMouseDown", target |-> id, calls |-> calls,
                  shiftKey |-> shiftKey, held |-> Held(canvas)]
        /\ track' = IF ~host.edgeMode /\ button = 0
                    THEN [phase |-> "down", id |-> id, px |-> mouse.x, py |-> mouse.y,
                          far |-> FALSE, toggles |-> 0, moved |-> FALSE,
                          pos |-> canvas.pos]
                    ELSE IF host.edgeMode /\ button = 0 /\ ~shiftKey
                    THEN [phase |-> "edgeDown", id |-> id, from |-> canvas.pendingFrom,
                          n |-> EdgeCallsOf(calls, canvas.pendingFrom, id)]
                    ELSE NoTrack
        /\ UNCHANGED <<histVars, layoutVars>>

\* observer: the viewport, the positions, the selection and the pointer at
\* the press that starts a pan
PanTrack ==
    [phase |-> "pan", panX |-> canvas.panX, panY |-> canvas.panY,
     px |-> mouse.x, py |-> mouse.y, zoom |-> canvas.zoom, pos |-> canvas.pos,
     selected |-> host.selected]

\* mousedown on the svg background or on a child that is not a node (line 532)
SvgMouseDown ==
    \E shiftKey \in BOOLEAN, button \in {0, 1}, onBackground \in BOOLEAN :
        /\ mouse.click = "none" /\ mouse.pressed = "none" /\ ~ModalOpen(host)
        /\ mouse.presses < MaxPresses
        /\ TargetAt(canvas, host.nodes, mouse.x, mouse.y) = "svg"
        /\ canvas' = onSvgMouseDown(canvas, button, shiftKey, mouse.x, mouse.y,
                                    onBackground, host.edgeMode)
        /\ mouse' = [mouse EXCEPT !.pressed = IF button = 0 THEN "svg" ELSE "aux",
                                  !.presses = @ + 1]
        /\ ev' = [name |-> "svgMouseDown", target |-> "svg", calls |-> <<>>]
        /\ track' = IF button = 1 \/ shiftKey THEN PanTrack ELSE NoTrack
        /\ UNCHANGED <<host, env>>
        /\ UNCHANGED <<histVars, layoutVars>>

\* the click the browser dispatches after a primary-button release: on the
\* pressed element when the release is on it too, otherwise on the common
\* ancestor (the svg) or, depending on the browser, not at all
ClickAfter(releasedOn, viaAncestor) ==
    IF mouse.pressed \in {"none", "aux"} THEN "none"
    ELSE IF mouse.pressed = releasedOn THEN releasedOn
    ELSE IF viaAncestor THEN "svg" ELSE "none"

\* mouseup on a node group (line 753); stopPropagation keeps it from the svg
NodeMouseUp ==
    \E viaAncestor \in BOOLEAN :
        LET id    == TargetAt(canvas, host.nodes, mouse.x, mouse.y)
            calls == onNodeMouseUpCalls(canvas, id)
            h2    == applyCalls(host, calls)
        IN
        /\ mouse.click = "none" /\ mouse.pressed # "none" /\ ~ModalOpen(host)
        /\ id # "svg"
        /\ host' = h2
        /\ env' = [env EXCEPT !.inflight = @ \o callFetches(host, calls)]
        /\ canvas' = afterRender(onNodeMouseUp(canvas, id), calls, h2)
        /\ mouse' = [mouse EXCEPT !.pressed = "none", !.click = ClickAfter(id, viaAncestor)]
        /\ ev' = [name |-> "nodeMouseUp", target |-> id, calls |-> calls,
                  held |-> Held(canvas)]
        /\ track' = IF track.phase = "down" /\ track.id = id
                    THEN [TrackMore(calls) EXCEPT !.phase = "up"]
                    ELSE IF track.phase = "edgeDown" /\ track.id = id
                    THEN [track EXCEPT !.phase = "edgeUp",
                                       !.n = @ + EdgeCallsOf(calls, track.from, id)]
                    ELSE NoTrack
        /\ UNCHANGED <<histVars, layoutVars>>

\* mouseup on the svg (line 534)
SvgMouseUp ==
    \E viaAncestor \in BOOLEAN :
        LET calls == onSvgMouseUpCalls(canvas, host.nodes, host.onToggleSelect)
            h2    == applyCalls(host, calls)
        IN
        /\ mouse.click = "none" /\ mouse.pressed # "none" /\ ~ModalOpen(host)
        /\ TargetAt(canvas, host.nodes, mouse.x, mouse.y) = "svg"
        /\ host' = h2
        /\ UNCHANGED env
        /\ canvas' = afterRender(onSvgMouseUp(canvas, host.onToggleSelect), calls, h2)
        /\ mouse' = [mouse EXCEPT !.pressed = "none", !.click = ClickAfter("svg", viaAncestor)]
        /\ ev' = [name |-> "svgMouseUp", target |-> "svg", calls |-> calls,
                  held |-> Held(canvas)]
        /\ track' = NoTrack
        /\ UNCHANGED <<histVars, layoutVars>>

\* the button is released where no handler of the canvas sees it (outside
\* the window, or after focus was lost): no mouseup, no click
MouseUpLost ==
    /\ mouse.click = "none" /\ mouse.pressed # "none"
    /\ mouse' = [mouse EXCEPT !.pressed = "none"]
    /\ ev' = [name |-> "mouseUpLost", target |-> "none", calls |-> <<>>]
    /\ track' = IF track.phase = "edgeDown" /\ ModalOpen(host)
                THEN [track EXCEPT !.phase = "edgeUp"]
                ELSE NoTrack
    /\ UNCHANGED <<canvas, host, env>>
    /\ UNCHANGED <<histVars, layoutVars>>

\* click on a node group (lines 756-763)
NodeClick ==
    LET id    == mouse.click
        calls == nodeOnClickCalls(canvas, id, host.onToggleSelect)
    IN
    /\ id \in NodeIds
    /\ host' = applyCalls(host, calls)
    /\ mouse' = [mouse EXCEPT !.click = "none"]
    /\ ev' = [name |-> "nodeClick", target |-> id, calls |-> calls]
    /\ track' = IF track.phase = "up" /\ track.id = id
                THEN [TrackMore(calls) EXCEPT !.phase = "clicked"]
                ELSE NoTrack
    /\ UNCHANGED <<canvas, env>>
    /\ UNCHANGED <<histVars, layoutVars>>

\* click on the svg (line 535)
SvgClick ==
    /\ mouse.click = "svg"
    /\ canvas' = onSvgClick(canvas, host.edgeMode)
    /\ mouse' = [mouse EXCEPT !.click = "none"]
    /\ ev' = [name |-> "svgClick", target |-> "svg", calls |-> <<>>,
              held |-> Held(canvas)]
    /\ track' = NoTrack
    /\ UNCHANGED <<host, env>>
    /\ UNCHANGED <<histVars, layoutVars>>

\* the host flips the edge mode checkbox (page.tsx lines 1205-1206)
ToggleEdgeMode ==
    /\ mouse.click = "none"
    /\ host' = [host EXCEPT !.edgeMode = ~@]
    /\ ev' = [name |-> "edgeMode", target |-> "none", calls |-> <<>>]
    /\ track' = NoTrack
    /\ UNCHANGED <<canvas, mouse, env>>
    /\ UNCHANGED <<histVars, layoutVars>>

\* clicks on the zoom controls (lines 906-949), an overlay outside the svg
ZoomIn ==
    /\ mouse.click = "none" /\ mouse.pressed = "none" /\ ~ModalOpen(host)
    /\ canvas' = [canvas EXCEPT !.zoom = zoomIn(@)]
    /\ ev' = [name |-> "zoomIn", target |-> "none", calls |-> <<>>,
              before |-> canvas.zoom]
    /\ track' = NoTrack
    /\ UNCHANGED <<host, mouse, env>>
    /\ UNCHANGED <<histVars, layoutVars>>

ZoomOut ==
    /\ mouse.click = "none" /\ mouse.pressed = "none" /\ ~ModalOpen(host)
    /\ canvas' = [canvas EXCEPT !.zoom = zoomOut(@)]
    /\ ev' = [name |-> "zoomOut", target |-> "none", calls |-> <<>>,
              before |-> canvas.zoom]
    /\ track' = NoTrack
    /\ UNCHANGED <<host, mouse, env>>
    /\ UNCHANGED <<histVars, layoutVars>>

ResetView ==
    /\ mouse.click = "none" /\ mouse.pressed = "none" /\ ~ModalOpen(host)
    /\ canvas' = resetView(canvas)
    /\ ev' = [name |-> "resetView", target |-> "none", calls |-> <<>>,
              before |-> canvas.zoom]
    /\ track' = NoTrack
    /\ UNCHANGED <<host, mouse, env>>
    /\ UNCHANGED <<histVars, layoutVars>>

\* a click on the modal's backdrop (page.tsx line 1570): cancelEdgeModal
CancelEdgeModal ==
    /\ ModalOpen(host)
    /\ mouse.click = "none" /\ mouse.pressed = "none"
    /\ host' = rejectEdge(host)
    /\ ev' = [name |-> "cancelEdgeModal", target |-> "none", calls |-> <<>>]
    /\ track' = NoTrack
    /\ UNCHANGED <<canvas, mouse, env>>
    /\ UNCHANGED <<histVars, layoutVars>>

\* ---- the page's own controls; a pointer reaches them only while the
\* modal's backdrop is not mounted ----

\* the component after the page replaced its nodes prop: the position sync
\* effect (lines 129-154)
nodesChanged(c, h2) == [c EXCEPT !.pos = posSync(@, h2.nodes)]

\* the Delete button of a listed node (page.tsx line 1370)
DeleteNode ==
    \E id \in LiveIds(host) :
        /\ ~ModalOpen(host) /\ mouse.click = "none" /\ mouse.pressed = "none"
        /\ host' = deleteNode(host, id)
        /\ canvas' = nodesChanged(canvas, host')
        /\ ev' = [name |-> "deleteNode", target |-> id, calls |-> <<>>,
                  incident |-> Len(host.edges) - Len(host'.edges),
                  wasSelected |-> id \in DOMAIN host.selected /\ host.selected[id]]
        /\ track' = NoTrack
        /\ UNCHANGED <<mouse, env>>
        /\ UNCHANGED <<histVars, layoutVars>>

\* the Add buttons (page.tsx lines 1188, 1195); the id is a fresh random one
AddNode ==
    \E id \in NodeIds \ env.ids :
        /\ ~ModalOpen(host) /\ mouse.click = "none" /\ mouse.pressed = "none"
        /\ host' = addNode(host, id)
        /\ canvas' = nodesChanged(canvas, host')
        /\ env' = [env EXCEPT !.ids = @ \cup {id}]
        /\ ev' = [name |-> "addNode", target |-> id, calls |-> <<>>]
        /\ track' = NoTrack
        /\ UNCHANGED mouse
        /\ UNCHANGED <<histVars, layoutVars>>

\* the checkbox of a listed node (page.tsx line 1352)
ToggleCheckbox ==
    \E id \in LiveIds(host) :
        /\ ~ModalOpen(host) /\ mouse.click = "none" /\ mouse.pressed = "none"
        /\ host' = [host EXCEPT !.selected = toggleSelected(@, id)]
        /\ ev' = [name |-> "toggleCheckbox", target |-> id, calls |-> <<>>]
        /\ track' = NoTrack
        /\ UNCHANGED <<canvas, mouse, env>>
        /\ UNCHANGED <<histVars, layoutVars>>

\* the Select all / Select none buttons (page.tsx lines 1316, 1319)
SelectAll ==
    /\ ~ModalOpen(host) /\ mouse.click = "none" /\ mouse.pressed = "none"
    /\ host' = selectAll(host)
    /\ ev' = [name |-> "selectAll", target |-> "none", calls |-> <<>>]
    /\ track' = NoTrack
    /\ UNCHANGED <<canvas, mouse, env>>
    /\ UNCHANGED <<histVars, layoutVars>>

SelectNone ==
    /\ ~ModalOpen(host) /\ mouse.click = "none" /\ mouse.pressed = "none"
    /\ host' = selectNone(host)
    /\ ev' = [name |-> "selectNone", target |-> "none", calls |-> <<>>]
    /\ track' = NoTrack
    /\ UNCHANGED <<canvas, mouse, env>>
    /\ UNCHANGED <<histVars, layoutVars>>

\* the Extract button (page.tsx lines 1124-1125), disabled while busy
Extract ==
    /\ ~ModalOpen(host) /\ mouse.click = "none" /\ mouse.pressed = "none"
    /\ host.busy = "idle"
    /\ host' = extractStart(host)
    /\ env' = [env EXCEPT !.inflight = Append(@, [kind |-> "extract"])]
    /\ ev' = [name |-> "extract", target |-> "none", calls |-> <<>>]
    /\ track' = NoTrack
    /\ UNCHANGED <<canvas, mouse>>
    /\ UNCHANGED <<histVars, layoutVars>>

\* the node lists the /extract/nodes endpoint answers with in the model
ExtractLists == {<<>>, <<[id |-> "n2", xy |-> <<>>]>>}

\* the sequence without its i-th element
Without(seq, i) == SubSeq(seq, 1, i - 1) \o SubSeq(seq, i + 1, Len(seq))

\* a response to, or the failure of, one request in flight
ExtractArrives ==
    \E i \in DOMAIN env.inflight, ok \in BOOLEAN, next \in ExtractLists :
        /\ env.inflight[i].kind = "extract"
        /\ mouse.click = "none"
        /\ host' = extractArrives(host, ok, next)
        /\ canvas' = IF ok THEN nodesChanged(canvas, host') ELSE canvas
        /\ env' = [env EXCEPT !.inflight = Without(@, i),
                              !.ids = IF ok THEN @ \cup LiveIds(host') ELSE @]
        /\ ev' = [name |-> "extractArrives", target |-> "none", calls |-> <<>>]
        /\ track' = NoTrack
        /\ UNCHANGED mouse
        /\ UNCHANGED <<histVars, layoutVars>>

RationaleArrives ==
    \E i \in DOMAIN env.inflight, ok \in BOOLEAN :
        /\ env.inflight[i].kind = "rationale"
        /\ mouse.click = "none"
        /\ host' = rationaleArrives(host, env.inflight[i], ok)
        /\ env' = [env EXCEPT !.inflight = Without(@, i)]
        /\ ev' = [name |-> "rationaleArrives", target |-> "none", calls |-> <<>>,
                  of |-> <<env.inflight[i].from_id, env.inflight[i].to_id>>]
        /\ track' = NoTrack
        /\ UNCHANGED <<canvas, mouse>>
        /\ UNCHANGED <<histVars, layoutVars>>

\* the modal's Accept and Reject buttons (EdgeRationaleCard lines 158, 188),
\* disabled while loading
AcceptEdge ==
    /\ ModalOpen(host) /\ ~host.fetchingRationale
    /\ mouse.click = "none" /\ mouse.pressed = "none"
    /\ host' = acceptEdge(host)
    /\ ev' = [name |-> "acceptEdge", target |-> "none", calls |-> <<>>]
    /\ track' = NoTrack
    /\ UNCHANGED <<canvas, mouse, env>>
    /\ UNCHANGED <<histVars, layoutVars>>

RejectEdge ==
    /\ ModalOpen(host) /\ ~host.fetchingRationale
    /\ mouse.click = "none" /\ mouse.pressed = "none"
    /\ host' = rejectEdge(host)
    /\ ev' = [name |-> "rejectEdge", target |-> "none", calls |-> <<>>]
    /\ track' = NoTrack
    /\ UNCHANGED <<canvas, mouse, env>>
    /\ UNCHANGED <<histVars, layoutVars>>

CanvasNext ==
    \/ MouseMove \/ NodeMouseDown \/ SvgMouseDown \/ NodeMouseUp \/ SvgMouseUp
    \/ MouseUpLost \/ NodeClick \/ SvgClick \/ ToggleEdgeMode \/ CancelEdgeModal

vars == <<histVars, canvasVars, layoutVars>>

Init == HistInit /\ CanvasInit /\ NoLayout

Next == HistNext \/ CanvasNext

Spec == Init /\ [][Next]_vars

\* the history hook alone, created with any initial value
SpecHistory == Init /\ [][HistNext]_vars

\* the canvas and its host alone
InitCanvas == HistCreate(ObjA) /\ CanvasInit /\ NoLayout

SpecCanvas == InitCanvas /\ [][CanvasNext]_vars

\* the lasso and pan gestures on a one-node graph, seen through viewports
\* that a pan gesture and one click on a zoom control leave behind
LassoZooms == {ZoomUnit, zoomIn(ZoomUnit), zoomOut(ZoomUnit)}

InitLasso ==
    /\ HistCreate(ObjA)
    /\ NoLayout
    /\ \E px \in PanXs, z \in LassoZooms :
          CanvasAt(<<[id |-> "n1", xy |-> <<100, 100>>]>>, <<>>, px, z, FALSE)

LassoNext ==
    \/ MouseMove \/ SvgMouseDown \/ SvgMouseUp \/ NodeMouseUp
    \/ MouseUpLost \/ SvgClick

SpecLasso == InitLasso /\ [][LassoNext]_vars

\* an accepted edge as a saved project holds it
LoadedEdge(from_id, to_id) ==
    [from_id |-> from_id, to_id |-> to_id, type |-> "CAUSES",
     mechanisms |-> EmptyRationale]

\* the sub-sequences of a sequence
RECURSIVE SubSeqs(_)
SubSeqs(seq) ==
    IF seq = <<>> THEN {<<>>}
    ELSE LET rest == SubSeqs(Tail(seq)) IN
         rest \cup {<<Head(seq)>> \o r : r \in rest}

\* the graphs loadProject (page.tsx lines 427-430) is given in the model:
\* three nodes without stored positions and any of four edges among them
ThreeNodes == <<[id |-> "n1", xy |-> <<>>], [id |-> "n2", xy |-> <<>>],
                [id |-> "n3", xy |-> <<>>]>>

LoadedEdgeLists ==
    SubSeqs(<<LoadedEdge("n1", "n2"), LoadedEdge("n3", "n1"),
              LoadedEdge("n2", "n3"), LoadedEdge("n2", "n1")>>)

\* edge creation in edge mode, with both protocols, the rationale modal and
\* node deletion and addition, on a graph of two nodes without edges
TwoNodes == <<[id |-> "n1", xy |-> <<>>], [id |-> "n2", xy |-> <<>>]>>

InitGraph ==
    /\ HistCreate(ObjA)
    /\ NoLayout
    /\ CanvasAt(TwoNodes, <<>>, 0, ZoomUnit, TRUE)

\* the same, on a graph that may already hold the edge n1 -> n2
InitEdges ==
    /\ HistCreate(ObjA)
    /\ NoLayout
    /\ \E es \in {<<>>, <<LoadedEdge("n1", "n2")>>} :
          CanvasAt(TwoNodes, es, 0, ZoomUnit, TRUE)

EdgesNext ==
    \/ PointerOver \/ NodeMouseDown \/ NodeMouseUp \/ SvgMouseUp \/ MouseUpLost
    \/ NodeClick \/ SvgClick
    \/ CancelEdgeModal \/ RationaleArrives \/ AcceptEdge \/ RejectEdge

SpecEdges == InitEdges /\ [][EdgesNext]_vars

GraphNext ==
    \/ PointerOver \/ NodeMouseDown \/ NodeMouseUp \/ SvgMouseUp \/ MouseUpLost
    \/ NodeClick \/ SvgClick
    \/ CancelEdgeModal \/ RationaleArrives \/ AcceptEdge \/ RejectEdge
    \/ DeleteNode \/ AddNode

SpecGraph == InitGraph /\ [][GraphNext]_vars

\* selection through the page's controls while nodes are added, deleted and
\* replaced by extract
InitSelect ==
    /\ HistCreate(ObjA)
    /\ NoLayout
    /\ CanvasAt(TwoNodes, <<>>, 0, ZoomUnit, FALSE)

SelectNext ==
    \/ ToggleCheckbox \/ SelectAll \/ SelectNone \/ AddNode \/ DeleteNode
    \/ Extract \/ ExtractArrives

SpecSelect == InitSelect /\ [][SelectNext]_vars

\* node deletion and selection on a loaded graph
InitDelete ==
    /\ HistCreate(ObjA)
    /\ NoLayout
    /\ \E es \in LoadedEdgeLists : CanvasAt(ThreeNodes, es, 0, ZoomUnit, FALSE)

DeleteNext == DeleteNode \/ ToggleCheckbox \/ SelectAll \/ SelectNone

SpecDelete == InitDelete /\ [][DeleteNext]_vars

\* the zoom controls alone, from the pans a pan gesture leaves behind
InitZoom ==
    /\ HistCreate(ObjA)
    /\ NoLayout
    /\ \E px \in PanXs :
          CanvasAt(<<[id |-> "n1", xy |-> <<100, 100>>]>>, <<>>, px, ZoomUnit, FALSE)

ZoomNext == ZoomIn \/ ZoomOut \/ ResetView

SpecZoom == InitZoom /\ [][ZoomNext]_vars

(***************************************************************************)
(* Claims about useHistory                                                 *)
(***************************************************************************)

\* C1: a burst of k >= 1 un-forced sets inside the throttle window followed
\* by one forced set whose value differs from the state before the burst
\* grows past by exactly one entry over the whole sequence, and a following
\* undo makes present equal to the state that was present before the burst.
C1_BurstIsOneUndoStep ==
    /\ burst.phase = "forced" => Len(state.past) = burst.basePast + 1
    /\ burst.phase = "undone" => DeepEqual(state.present, burst.base)

\* C2: after undo, a set(x) with x different from present leaves future
\* empty, and a redo right after a set that left future empty changes
\* neither past, present nor future.
C2_SetAfterUndoClearsFuture ==
    [][ /\ (histOp.name = "undo" /\ histOp'.name = "set"
            /\ ~DeepEqual(histOp'.v, state.present))
           => state'.future = <<>>
        /\ (histOp.name = "set" /\ state.future = <<>> /\ histOp'.name = "redo")
           => state' = state ]_vars

\* C3: an un-forced set(x) less than 500 ms after the last recorded change
\* replaces present by x and leaves past unchanged; a set(x) that is forced,
\* or 500 ms or more after the last recorded change, with x different from
\* present, appends the old present to past and makes x the present.
C3_SetThrottleOrRecord ==
    [][ histOp'.name = "set" =>
        /\ (~histOp'.force /\ now - lastPushTime < THROTTLE_MS)
           => (state'.present = histOp'.v /\ state'.past = state.past)
        /\ ((histOp'.force \/ now - lastPushTime >= THROTTLE_MS)
            /\ ~DeepEqual(histOp'.v, state.present))
           => (state'.past = Append(state.past, state.present)
               /\ state'.present = histOp'.v) ]_vars

\* C4: a set(x) whose value is deep-equal to present leaves past, present
\* and future unchanged, forced or not, inside or outside the window.
C4_SetDeepEqualIsNoOp ==
    [][ (histOp'.name = "set" /\ DeepEqual(histOp'.v, state.present))
        => /\ state'.past = state.past
           /\ DeepEqual(state'.present, state.present)
           /\ state'.future = state.future ]_vars

\* C5: undo with non-empty past makes the top of past the present, removes
\* it from past and puts the old present at the front of future; redo with
\* non-empty future makes the front of future the present, removes it from
\* future and appends the old present to past; undo on empty past and redo
\* on empty future change nothing; canUndo / canRedo hold exactly when past /
\* future is non-empty.
C5_UndoRedoMoveOneEntry ==
    [][ /\ histOp'.name = "undo" =>
              IF state.past # <<>>
              THEN /\ state'.present = state.past[Len(state.past)]
                   /\ state'.past = SubSeq(state.past, 1, Len(state.past) - 1)
                   /\ state'.future = <<state.present>> \o state.future
              ELSE state' = state
        /\ histOp'.name = "redo" =>
              IF state.future # <<>>
              THEN /\ state'.present = state.future[1]
                   /\ state'.future = SubSeq(state.future, 2, Len(state.future))
                   /\ state'.past = state.past \o <<state.present>>
              ELSE state' = state
        /\ canUndo' <=> (state'.past # <<>>)
        /\ canRedo' <=> (state'.future # <<>>) ]_vars

\* a redo has just acted while a second undone entry is still in future
C5_Witness ==
    /\ histOp.name = "redo"
    /\ state.past # <<>>
    /\ state.future # <<>>
    /\ canUndo /\ canRedo

\* C6: reset(s) yields past = empty, future = empty and present = s from any
\* history state, and an undo or redo right after reset changes nothing.
C6_ResetClearsHistory ==
    [][ /\ histOp'.name = "reset" =>
              state' = [past |-> <<>>, present |-> histOp'.v, future |-> <<>>]
        /\ (histOp.name = "reset" /\ histOp'.name \in {"undo", "redo"})
              => state' = state ]_vars

\* a reset has just discarded a non-empty past and a non-empty future
C6_Witness ==
    /\ histOp.name = "reset"
    /\ histOp.dropped[1] > 0 /\ histOp.dropped[2] > 0
    /\ state.past = <<>> /\ state.future = <<>>

(***************************************************************************)
(* Claims about GraphCanvas                                                *)
(***************************************************************************)

ActiveGestures(c) ==
    {g \in {"node-drag", "edge-drag", "lasso", "pan"} :
        \/ g = "node-drag" /\ c.dragId # NullId
        \/ g = "edge-drag" /\ c.edgeDragFrom # NullId
        \/ g = "lasso"     /\ c.lassoStart # Null
        \/ g = "pan"       /\ c.isPanning}

SelectedIds(h) == {id \in DOMAIN h.selected : h.selected[id]}

\* C7: in every reachable state at most one of node-drag (dragId set),
\* edge-drag (edgeDragFrom set), lasso (lassoStart set) and pan (isPanning)
\* is active.
C7_AtMostOneGesture == Cardinality(ActiveGestures(canvas)) <= 1

\* C8: in plain mode a press, moves, release, click sequence on one node
\* whose displacement from the press point never exceeds 5 px invokes
\* onToggleSelect for the node exactly once; one whose displacement exceeds
\* 5 px reports a position change for the node and invokes no onToggleSelect.
C8_ClickTogglesDragMoves ==
    track.phase = "clicked" =>
        IF track.far
        THEN track.moved /\ track.toggles = 0
        ELSE track.toggles = 1

\* C9: the pointer-up that ends a node drag invokes onNodesPosChange for the
\* dragged node if and only if the 5 px threshold was crossed during the
\* drag, on the node (onNodeMouseUp) and on the background (onSvgMouseUp).
C9_CommitIffThresholdCrossed ==
    [][ (/\ canvas.dragId # NullId
         /\ canvas'.dragId = NullId
         /\ ev'.name \in {"nodeMouseUp", "svgMouseUp"})
        => (ReportsMove(ev'.calls, canvas.dragId) <=> canvas.hasDragged) ]_vars

\* C10: after the pointer-up that ends a lasso the host's selection is
\* exactly the set of nodes whose position lies inside the lasso rectangle
\* (bounds inclusive), whatever the selection was before.
C10_LassoReplacesSelection ==
    [][ (/\ ev'.name = "svgMouseUp"
         /\ canvas.lassoStart # Null
         /\ canvas'.lassoStart = Null)
        => SelectedIds(host') =
             {id \in {host.nodes[i].id : i \in DOMAIN host.nodes} :
                LET q == canvas.pos[id]
                    a == canvas.lassoStart
                    b == canvas.lassoEnd
                IN  /\ (a.x <= q.x /\ q.x <= b.x) \/ (b.x <= q.x /\ q.x <= a.x)
                    /\ (a.y <= q.y /\ q.y <= b.y) \/ (b.y <= q.y /\ q.y <= a.y)} ]_vars

(***************************************************************************)
(* Claims about the viewport, the edge protocols and the host's graph      *)
(***************************************************************************)

\* the ids one event handler passed to onToggleSelect
ToggledIds(calls) ==
    {calls[k].id : k \in {j \in DOMAIN calls : calls[j].cb = "onToggleSelect"}}

\* the node is drawn inside the rectangle the pointer swept from a to b
DrawnInside(c, id, a, b) ==
    LET s == screenOf(c, renderedPos(c, id)) IN
    /\ Min(a.x, b.x) * ZoomUnit <= s.x /\ s.x <= Max(a.x, b.x) * ZoomUnit
    /\ Min(a.y, b.y) * ZoomUnit <= s.y /\ s.y <= Max(a.y, b.y) * ZoomUnit

\* C11: for every pan offset and every zoom, the nodes a lasso picks on
\* pointer-up are exactly the nodes drawn, through translate(pan)
\* scale(zoom), inside the rectangle the pointer swept on screen.
C11_LassoPicksWhatIsSwept ==
    [][ (/\ ev'.name = "svgMouseUp"
         /\ canvas.lassoStart # Null
         /\ canvas'.lassoStart = Null)
        => ToggledIds(ev'.calls) =
             {id \in LiveIds(host) :
                DrawnInside(canvas, id, canvas.lassoStart, canvas.lassoEnd)} ]_vars

\* C20: after any sequence of zoom-in, zoom-out and reset-view clicks from
\* zoom = 1, zoom is within [0.1, 3.0] and is never 0, and reset-view leaves
\* zoom = 1 and pan = (0, 0).
C20_ZoomClamped ==
    /\ ZoomUnit \div 10 <= canvas.zoom /\ canvas.zoom <= 3 * ZoomUnit
    /\ canvas.zoom # 0
    /\ ev.name = "resetView" =>
          canvas.zoom = ZoomUnit /\ canvas.panX = 0 /\ canvas.panY = 0

\* a zoom-out click whose quotient fell below 0.1 has been clamped, on a
\* canvas that is panned away from the origin
C20_Witness ==
    /\ ev.name = "zoomOut"
    /\ Round(ev.before * 5, 6) < ZoomUnit \div 10
    /\ canvas.zoom = ZoomUnit \div 10
    /\ canvas.panX # 0

\* C14: deleteNode(n) removes n from the node collection, every edge whose
\* from_id or to_id is n, and n from the selection, in one step; every other
\* node, every edge not incident to n and every other selection entry is
\* left as it was.
C14_CascadeDelete ==
    [][ ev'.name = "deleteNode" =>
        LET n == ev'.target IN
        /\ n \notin LiveIds(host')
        /\ \A i \in DOMAIN host'.edges :
              host'.edges[i].from_id # n /\ host'.edges[i].to_id # n
        /\ n \notin DOMAIN host'.selected
        /\ LiveIds(host') = LiveIds(host) \ {n}
        /\ \A i \in DOMAIN host.nodes :
              host.nodes[i].id # n => \E j \in DOMAIN host'.nodes :
                                         host'.nodes[j] = host.nodes[i]
        /\ Len(host'.nodes) = Len(host.nodes) - 1
        /\ \A i \in DOMAIN host.edges :
              (host.edges[i].from_id # n /\ host.edges[i].to_id # n)
              => \E j \in DOMAIN host'.edges : host'.edges[j] = host.edges[i]
        /\ Len(host'.edges) =
              Cardinality({i \in DOMAIN host.edges :
                             host.edges[i].from_id # n /\ host.edges[i].to_id # n})
        /\ DOMAIN host'.selected = (DOMAIN host.selected) \ {n}
        /\ \A k \in DOMAIN host'.selected : host'.selected[k] = host.selected[k]
      ]_vars

\* a selected node with two incident edges has just been deleted, and an
\* edge between other nodes and another selected node are still there
C14_Witness ==
    /\ ev.name = "deleteNode"
    /\ ev.incident = 2 /\ ev.wasSelected
    /\ Len(host.edges) >= 1
    /\ SelectedIds(host) # {}

\* the onCreateEdge calls one event handler made
EdgeCalls(calls) == {k \in DOMAIN calls : calls[k].cb = "onCreateEdge"}

\* C12: over every sequence of canvas events in both edge protocols,
\* GraphCanvas never invokes onCreateEdge(a, b) with a = b, and the host
\* never adds an edge whose from_id equals its to_id.
C12_NoSelfLoop ==
    /\ \A k \in EdgeCalls(ev.calls) : ev.calls[k].from # ev.calls[k].to
    /\ \A i \in DOMAIN host.edges : host.edges[i].from_id # host.edges[i].to_id

\* an edge drag has just been released on its own source node, without a
\* callback, on a graph that already holds an accepted edge
C12_Witness ==
    /\ ev.name = "nodeMouseUp"
    /\ ev.held.edgeDragFrom = ev.target
    /\ ev.calls = <<>>
    /\ host.edges # <<>>

\* C13: GraphCanvas never invokes onCreateEdge(a, b) when the edge
\* collection already holds an edge from a to b, and the edge collection
\* never holds two edges with the same from_id, to_id and type.
C13_NoDuplicateEdge ==
    [][ /\ \A k \in EdgeCalls(ev'.calls) :
              ~\E i \in DOMAIN host.edges :
                  /\ host.edges[i].from_id = ev'.calls[k].from
                  /\ host.edges[i].to_id = ev'.calls[k].to
        /\ \A i, j \in DOMAIN host'.edges :
              (/\ host'.edges[i].from_id = host'.edges[j].from_id
               /\ host'.edges[i].to_id = host'.edges[j].to_id
               /\ host'.edges[i].type = host'.edges[j].type) => i = j ]_vars

\* C15: every edge of the edge collection has a from_id and a to_id that
\* are ids of nodes currently in the node collection.
C15_EdgeEndpointsLive ==
    \A i \in DOMAIN host.edges :
        host.edges[i].from_id \in LiveIds(host) /\ host.edges[i].to_id \in LiveIds(host)

\* C17: the rationale held while an edge is pending is never the one
\* returned for another pair, and the mechanisms stored on an accepted edge
\* are never those returned for another pair.
C17_RationaleKeyedByEdge ==
    /\ (host.pendingEdge # Null /\ host.edgeRationale # Null
         /\ host.edgeRationale # EmptyRationale)
        => host.edgeRationale = RationaleFor(host.pendingEdge.from_id,
                                             host.pendingEdge.to_id)
    /\ \A i \in DOMAIN host.edges :
          host.edges[i].mechanisms # EmptyRationale
          => host.edges[i].mechanisms = RationaleFor(host.edges[i].from_id,
                                                     host.edges[i].to_id)

\* C16: every id marked selected is the id of a node currently in the node
\* collection.
C16_SelectionIsLive == SelectedIds(host) \subseteq LiveIds(host)

\* C18: when an edge drag from s is active, a pointer-up over a node t
\* other than s invokes onCreateEdge(s, t) exactly once, a pointer-up over
\* the empty canvas or over s invokes no callback, and in all three cases
\* the edge-drag source and the rubber-band endpoint are cleared.
C18_EdgeDragRelease ==
    [][ (/\ ev'.name \in {"nodeMouseUp", "svgMouseUp"}
         /\ canvas.edgeDragFrom # NullId)
        => /\ IF ev'.name = "nodeMouseUp" /\ ev'.target # canvas.edgeDragFrom
              THEN ev'.calls = <<[cb |-> "onCreateEdge",
                                  from |-> canvas.edgeDragFrom, to |-> ev'.target]>>
              ELSE ev'.calls = <<>>
           /\ canvas'.edgeDragFrom = NullId
           /\ canvas'.edgeDragPos = Null ]_vars

\* C19: in edge mode, with no pending source a click on node a makes a the
\* pending source and starts no drag gesture; with pending source a, a click
\* on another node b invokes onCreateEdge(a, b) exactly once and clears the
\* pending source; a click on the background clears the pending source
\* without invoking onCreateEdge.
C19_ClickToConnect ==
    [][ /\ (/\ track'.phase = "edgeDown" /\ track'.from = NullId)
           => /\ canvas'.pendingFrom = track'.id
              /\ canvas'.dragId = canvas.dragId
              /\ canvas'.edgeDragFrom = canvas.edgeDragFrom
        /\ (/\ track'.phase = "edgeDown" /\ track'.from \notin {NullId, track'.id})
           => canvas'.pendingFrom = NullId
        /\ (/\ track'.phase = "edgeUp" /\ track'.from \notin {NullId, track'.id})
           => track'.n = 1
        /\ (/\ track.phase = "edgeDown" /\ track'.phase = "edgeUp")
           => canvas'.pendingFrom = canvas.pendingFrom
        /\ (ev'.name = "svgClick" /\ host.edgeMode)
           => canvas'.pendingFrom = NullId /\ ev'.calls = <<>> ]_vars

(***************************************************************************)
(* Claims about the viewport mapping, the layouts and the position map     *)
(***************************************************************************)

\* C21: for every viewport and every screen point p, mapping p to world
\* space with ptFromEvent and drawing the result through translate(pan)
\* scale(zoom) gives p back.
C21_TransformRoundTrip ==
    \A x \in ClientXs, y \in ClientYs :
        screenOf(canvas, ptFromEvent(x, y))
          = Pt((x - SvgOrigin.x) * ZoomUnit, (y - SvgOrigin.y) * ZoomUnit)

(***************************************************************************)
(* ------------------------  utils/graphLayout.ts  ----------------------- *)
(***************************************************************************)

\* DEFAULT_CONFIG (lines 15-20) and the viewport offsets of lines 133-134
horizontalSpacing == 200
verticalSpacing   == 150
nodeWidth         == 180
centerX           == 400
centerY           == 200

\* the ids layouts are called with: the nodes are a prefix of LayoutIds, so
\* that an edge of a shorter node list names ids that are not nodes
LayoutIds == <<"a", "b", "c">>

MaxEdges == 3      \* edges in the edge list of one layout call
MaxSteps == 6      \* dequeues of the work queue the model follows

\* a node as the layouts see it: id, an attribute other than the position,
\* and x/y (absent when xy is empty)
LayoutNode(id, xy) == [id |-> id, text |-> "claim " \o id, xy |-> xy]
LayoutEdge(from_id, to_id) == [from_id |-> from_id, to_id |-> to_id]

IdsOf(nodes) == {nodes[i].id : i \in DOMAIN nodes}

\* the to_id of the edges leaving id, in edge order
RECURSIVE TargetsOf(_, _, _)
TargetsOf(edges, i, id) ==
    IF i > Len(edges) THEN <<>>
    ELSE (IF edges[i].from_id = id THEN <<edges[i].to_id>> ELSE <<>>)
         \o TargetsOf(edges, i + 1, id)

\* the ids of a node list, in node order
idSeq(nodes) == [i \in DOMAIN nodes |-> nodes[i].id]

InSeq(seq, v) == \E k \in DOMAIN seq : seq[k] = v

\* Array.prototype.indexOf, 0-based, -1 when absent
indexOf(seq, v) ==
    IF InSeq(seq, v)
    THEN (CHOOSE k \in DOMAIN seq : seq[k] = v /\ \A m \in DOMAIN seq : seq[m] = v => k <= m) - 1
    ELSE -1

\* layers[layer] || [] on the array of layer lists (index 0 is element 1)
layerAt(layers, layer) ==
    IF layer + 1 \in DOMAIN layers THEN layers[layer + 1] ELSE <<>>

\* layers[layer].push(id), creating the list (and the holes before it)
pushLayer(layers, layer, id) ==
    [k \in 1 .. Max(Len(layers), layer + 1) |->
        IF k = layer + 1 THEN Append(layerAt(layers, layer), id)
        ELSE layerAt(layers, k - 1)]

\* nodeLayer.get(id) || 0
layerOf(nodeLayer, id) == IF id \in DOMAIN nodeLayer THEN nodeLayer[id] ELSE 0

\* lines 35-71: adjacency and in-degree maps, the seeds of the queue and
\* their layer; pushed lists every id the queue was ever given
hierBuild(nodes, edges) ==
    LET adjacency == [id \in IdsOf(nodes) |-> TargetsOf(edges, 1, id)]
        inDegree  == [id \in IdsOf(nodes) \cup {edges[k].to_id : k \in DOMAIN edges} |->
                         Cardinality({k \in DOMAIN edges : edges[k].to_id = id})]
        Root(id)  == inDegree[id] = 0
        roots     == SelectSeq(idSeq(nodes), Root)
        queue     == IF roots = <<>> THEN <<nodes[1].id>> ELSE roots
    IN  [adjacency |-> adjacency,
         inDegree  |-> inDegree,
         nodeLayer |-> [id \in {queue[k] : k \in DOMAIN queue} |-> 0],
         layers    |-> <<>>,
         queue     |-> queue,
         pushed    |-> queue]

\* line 93: the test that puts a child on the queue
shouldEnqueueMutAlways(h, childId) == ~InSeq(h.queue, childId)

shouldEnqueue(h, childId) == h.inDegree[childId] = 0 /\ ~InSeq(h.queue, childId)

\* lines 90-91: the layer a child gets from a parent in layer
childLayerMutFirst(h, childId, layer) ==
    IF childId \in DOMAIN h.nodeLayer THEN h.nodeLayer[childId] ELSE layer + 1

childLayer(h, childId, layer) == Max(layerOf(h.nodeLayer, childId), layer + 1)

\* lines 85-96: children.forEach
RECURSIVE hierVisit(_, _, _, _)
hierVisit(h, children, i, layer) ==
    IF i > Len(children) THEN h
    ELSE LET childId == children[i]
             h1 == [h EXCEPT !.inDegree[childId] = @ - 1,
                             !.nodeLayer = (childId :> childLayer(h, childId, layer)) @@ @]
             h2 == IF shouldEnqueue(h1, childId)
                   THEN [h1 EXCEPT !.queue = Append(@, childId),
                                   !.pushed = Append(@, childId)]
                   ELSE h1
         IN  hierVisit(h2, children, i + 1, layer)

\* lines 75-96: one turn of the while loop
hierStep(h) ==
    LET nodeId   == Head(h.queue)
        layer    == layerOf(h.nodeLayer, nodeId)
        children == IF nodeId \in DOMAIN h.adjacency THEN h.adjacency[nodeId] ELSE <<>>
        h1       == [h EXCEPT !.queue = Tail(@),
                              !.layers = pushLayer(@, layer, nodeId)]
    IN  hierVisit(h1, children, 1, layer)

\* lines 99-110: nodes without a layer get one new layer each, because
\* layers.length is read again for every node
RECURSIVE hierRemaining(_, _, _, _)
hierRemaining(h, nodes, i, processedNodes) ==
    IF i > Len(nodes) THEN h
    ELSE LET id == nodes[i].id IN
         IF id \notin processedNodes
         THEN LET lastLayer == Len(h.layers) IN
              hierRemaining([h EXCEPT !.layers = pushLayer(@, lastLayer, id),
                                      !.nodeLayer = (id :> lastLayer) @@ @],
                            nodes, i + 1, processedNodes)
         ELSE hierRemaining(h, nodes, i + 1, processedNodes)

\* lines 113-123: the layer and the index in the layer a node is placed by
hierPlace(h, id) ==
    LET layer == layerOf(h.nodeLayer, id) IN
    [layer |-> layer,
     count |-> Len(layerAt(h.layers, layer)),
     index |-> indexOf(layerAt(h.layers, layer), id)]

\* lines 119-139: x and y from the place
hierXY(place) ==
    LET layerWidth == place.count * (nodeWidth + horizontalSpacing)
        x == 0 - layerWidth \div 2 + place.index * (nodeWidth + horizontalSpacing)
             + nodeWidth \div 2
        y == place.layer * verticalSpacing
    IN  <<x + centerX, y + centerY>>

\* lines 99-140 on the state the loop left
hierFinish(nodes, h) ==
    LET h2 == hierRemaining(h, nodes, 1, DOMAIN h.nodeLayer) IN
    [h      |-> h2,
     result |-> [i \in DOMAIN nodes |->
                    [nodes[i] EXCEPT !.xy = hierXY(hierPlace(h2, nodes[i].id))]]]

\* the node lists and edge lists the layouts are called with
LayoutNodeLists ==
    {[i \in 1 .. n |-> LayoutNode(LayoutIds[i], <<>>)] : n \in 0 .. Len(LayoutIds)}

\* the edges of the calls: a chain, its closing edge, a shortcut, a back
\* edge and a self-loop
EdgePairs ==
    {LayoutEdge("a", "b"), LayoutEdge("b", "c"), LayoutEdge("c", "a"),
     LayoutEdge("a", "c"), LayoutEdge("c", "b"), LayoutEdge("a", "a")}

LayoutEdgeLists == UNION {[1 .. n -> EdgePairs] : n \in 0 .. MaxEdges}

\* the maps of a call that returned at line 33
NoMaps == [adjacency |-> <<>>, inDegree |-> <<>>, nodeLayer |-> <<>>,
           layers |-> <<>>, queue |-> <<>>, pushed |-> <<>>]

\* the x/y of a node list, by index
PositionsOf(nodes) == [i \in DOMAIN nodes |-> nodes[i].xy]

\* what is kept of a call that returned: the function and its numeric
\* argument, the arrays it was given, and the positions it returned
Returned(fn, arg, nodes, edges, result) ==
    [fn |-> fn, arg |-> arg, nodes |-> nodes, edges |-> edges,
     pos |-> PositionsOf(result)]

\* a caller about to call fn with nodes and edges
Calling(fn, nodes, edges) ==
    [pc |-> "call", fn |-> fn, nodes |-> nodes, edges |-> edges,
     h |-> NoMaps, steps |-> 0, result |-> <<>>]

\* some caller calls hierarchicalLayout with a node list and an edge list
CallHierarchical ==
    /\ lay.pc = "none"
    /\ \E nodes \in LayoutNodeLists, edges \in LayoutEdgeLists :
          lay' = Calling("hierarchical", nodes, edges)
    /\ UNCHANGED <<histVars, canvasVars, laid, dedup>>

\* hierarchicalLayout(nodes, edges) up to the while loop (lines 31-71)
HierStart ==
    /\ lay.pc = "call"
    /\ lay.fn = "hierarchical"
    /\ lay' = IF lay.nodes = <<>>
              THEN [lay EXCEPT !.pc = "done"]
              ELSE [lay EXCEPT !.pc = "loop", !.h = hierBuild(lay.nodes, lay.edges)]
    /\ laid' = IF lay.nodes = <<>>
               THEN Append(laid, Returned("hierarchical", 0, lay.nodes, lay.edges, <<>>))
               ELSE laid
    /\ UNCHANGED <<histVars, canvasVars, dedup>>

\* one turn of while (queue.length > 0) (lines 74-97)
HierStep ==
    /\ lay.pc = "loop"
    /\ lay.h.queue # <<>>
    /\ lay.steps < MaxSteps
    /\ lay' = [lay EXCEPT !.h = hierStep(@), !.steps = @ + 1]
    /\ UNCHANGED <<histVars, canvasVars, laid, dedup>>

\* the loop has ended: remaining nodes, positions, return (lines 99-140)
HierFinish ==
    /\ lay.pc = "loop"
    /\ lay.h.queue = <<>>
    /\ lay' = [lay EXCEPT !.pc = "done",
                          !.h = hierFinish(lay.nodes, lay.h).h,
                          !.result = hierFinish(lay.nodes, lay.h).result]
    /\ laid' = Append(laid, Returned("hierarchical", 0, lay.nodes, lay.edges,
                                     hierFinish(lay.nodes, lay.h).result))
    /\ UNCHANGED <<histVars, canvasVars, dedup>>

\* the steps of the function body
HierRun == HierStart \/ HierStep \/ HierFinish

HierNext == CallHierarchical \/ HierStart \/ HierStep \/ HierFinish

InitHier == HistCreate(ObjA) /\ CanvasInit /\ NoLayout

\* one call of hierarchicalLayout, followed through its work queue
SpecHier == InitHier /\ [][HierNext]_vars

\* the same call under a scheduler that lets the function run
SpecHierFair == SpecHier /\ WF_vars(HierRun)

\* C22: hierarchicalLayout terminates on every finite input, cyclic graphs,
\* self-loops, duplicate edges and edges naming ids that are not nodes
\* included: the work-queue loop ends within the dequeues the model follows
\* and the function returns.
C22_HierTerminates ==
    /\ (lay.pc = "call") ~> (lay.pc = "done")
    /\ [](lay.pc = "loop" /\ lay.h.queue # <<>> => lay.steps < MaxSteps)

\* a cyclic call has returned after the seed node was dequeued twice
C22_Witness ==
    /\ lay.pc = "done"
    /\ lay.edges = <<LayoutEdge("a", "b"), LayoutEdge("b", "c"), LayoutEdge("c", "a")>>
    /\ Len(lay.nodes) = 3
    /\ lay.steps = 4

\* C29: during the main pass of hierarchicalLayout each node is put on the
\* work queue at most once, cyclic graphs seeded from the first node
\* included.
C29_EnqueuedAtMostOnce ==
    lay.pc \in {"loop", "done"} =>
        \A id \in IdsOf(lay.nodes) :
            Cardinality({k \in DOMAIN lay.h.pushed : lay.h.pushed[k] = id}) <= 1

\* the places (layer list, index) where the layer lists hold id
PlacesOf(layers, id) ==
    {p \in UNION {{<<k, j>> : j \in DOMAIN layers[k]} : k \in DOMAIN layers} :
        layers[p[1]][p[2]] = id}

\* C23: when hierarchicalLayout returns, every input node is a member of
\* exactly one layer list, that layer is the one recorded for the node and
\* used for its y, and the node's index within that layer is found (>= 0).
C23_EveryNodeInOneLayer ==
    lay.pc = "done" /\ lay.fn = "hierarchical" =>
        \A i \in DOMAIN lay.nodes :
            LET id    == lay.nodes[i].id
                place == hierPlace(lay.h, id)
            IN  /\ Cardinality(PlacesOf(lay.h.layers, id)) = 1
                /\ InSeq(layerAt(lay.h.layers, place.layer), id)
                /\ place.index >= 0
                /\ lay.result[i].xy[2] = place.layer * verticalSpacing + centerY

\* every edge names two nodes of the list
EdgesNameNodes(nodes, edges) ==
    \A k \in DOMAIN edges : {edges[k].from_id, edges[k].to_id} \subseteq IdsOf(nodes)

\* the edges admit a ranking of the nodes that every edge increases
Acyclic(nodes, edges) ==
    \E rank \in [IdsOf(nodes) -> 1 .. Len(nodes)] :
        \A k \in DOMAIN edges : rank[edges[k].from_id] < rank[edges[k].to_id]

\* the largest element of a non-empty set of numbers
MaxOf(S) == CHOOSE m \in S : \A n \in S : n <= m

\* the length of the longest path from a root to id, in an acyclic graph
RECURSIVE LongestPath(_, _)
LongestPath(edges, id) ==
    LET preds == {edges[k].from_id : k \in {j \in DOMAIN edges : edges[j].to_id = id}} IN
    IF preds = {} THEN 0
    ELSE 1 + MaxOf({LongestPath(edges, p) : p \in preds})

\* C30: on a directed acyclic graph whose edges all name nodes (duplicate
\* edges allowed) hierarchicalLayout puts every node with in-degree 0 in
\* layer 0 and every other node one layer below its lowest predecessor (the
\* longest path from a root), so every edge goes to a strictly higher
\* layer, and y = layer * verticalSpacing + 200.
C30_LayerIsLongestPath ==
    (/\ lay.pc = "done" /\ lay.fn = "hierarchical"
     /\ EdgesNameNodes(lay.nodes, lay.edges)
     /\ Acyclic(lay.nodes, lay.edges))
    => /\ \A i \in DOMAIN lay.nodes :
            LET id == lay.nodes[i].id IN
            /\ layerOf(lay.h.nodeLayer, id) = LongestPath(lay.edges, id)
            /\ InSeq(layerAt(lay.h.layers, LongestPath(lay.edges, id)), id)
            /\ lay.result[i].xy[2] = LongestPath(lay.edges, id) * verticalSpacing + centerY
       /\ \A k \in DOMAIN lay.edges :
            layerOf(lay.h.nodeLayer, lay.edges[k].from_id)
              < layerOf(lay.h.nodeLayer, lay.edges[k].to_id)

\* a graph where c has a predecessor in layer 0 and one in layer 1 was laid out
C30_Witness ==
    /\ lay.pc = "done" /\ lay.fn = "hierarchical"
    /\ lay.edges = <<LayoutEdge("a", "c"), LayoutEdge("a", "b"), LayoutEdge("b", "c")>>
    /\ Len(lay.nodes) = 3
    /\ lay.h.nodeLayer["c"] = 2
    /\ lay.result[3].xy = <<300, 500>>

\* ----  the four layouts as whole functions  ----

\* the while loop of lines 74-97, run until the queue is empty
RECURSIVE hierLoop(_)
hierLoop(h) == IF h.queue = <<>> THEN h ELSE hierLoop(hierStep(h))

\* hierarchicalLayout (lines 26-141)
hierarchicalLayout(nodes, edges) ==
    IF nodes = <<>> THEN <<>>
    ELSE hierFinish(nodes, hierLoop(hierBuild(nodes, edges))).result

\* Math.cos and Math.sin of 2 * PI * index / n (line 269), in thousandths,
\* for the circles of up to three nodes
CosMilli(index, n) ==
    IF index = 0 THEN 1000
    ELSE IF 2 * index = n THEN -1000
    ELSE -500

SinMilli(index, n) ==
    IF index = 0 \/ 2 * index = n THEN 0
    ELSE IF 3 * index = n THEN 866
    ELSE -866

\* circularLayout (lines 262-279); x and y are doubles, kept to the
\* nearest pixel
circularLayoutMutDropText(nodes, radius) ==
    [i \in DOMAIN nodes |->
        [id |-> nodes[i].id, text |-> "",
         xy |-> <<Round(radius * CosMilli(i - 1, Len(nodes)), 1000) + 400,
                  Round(radius * SinMilli(i - 1, Len(nodes)), 1000) + 300>>]]

circularLayout(nodes, radius) ==
    [i \in DOMAIN nodes |->
        [nodes[i] EXCEPT !.xy =
            <<Round(radius * CosMilli(i - 1, Len(nodes)), 1000) + 400,
              Round(radius * SinMilli(i - 1, Len(nodes)), 1000) + 300>>]]

\* gridLayout (lines 284-301)
gridLayoutMutKeepX(nodes, columns, spacing) ==
    [i \in DOMAIN nodes |->
        [nodes[i] EXCEPT !.xy =
            <<IF nodes[i].xy # <<>> THEN nodes[i].xy[1]
              ELSE ((i - 1) % columns) * spacing + 200,
              ((i - 1) \div columns) * spacing + 150>>]]

gridLayout(nodes, columns, spacing) ==
    [i \in DOMAIN nodes |->
        [nodes[i] EXCEPT !.xy = <<((i - 1) % columns) * spacing + 200,
                                  ((i - 1) \div columns) * spacing + 150>>]]

\* forceDirectedLayout (lines 147-257).  The simulation of lines 155-221
\* runs on doubles from Math.random() seeds; the model takes the positions
\* it ends with (raw) from a set and follows lines 224-256 exactly: the
\* bounding box of the result is centred on (400, 300)
forceDirectedLayout(nodes, raw) ==
    IF nodes = <<>> THEN <<>>
    ELSE LET xs == {raw[i][1] : i \in DOMAIN nodes}
             ys == {raw[i][2] : i \in DOMAIN nodes}
             minX == 0 - MaxOf({0 - x : x \in xs})
             maxX == MaxOf(xs)
             minY == 0 - MaxOf({0 - y : y \in ys})
             maxY == MaxOf(ys)
             offsetX == 400 - (minX + (maxX - minX) \div 2)
             offsetY == 300 - (minY + (maxY - minY) \div 2)
         IN  [i \in DOMAIN nodes |->
                [nodes[i] EXCEPT !.xy = <<raw[i][1] + offsetX, raw[i][2] + offsetY>>]]

\* where the simulation may leave a node (even numbers, so that the
\* centre of the bounding box is a whole pixel)
ForceRaw == {<<0, 0>>, <<200, 100>>}

\* what Math.random() * 800 and Math.random() * 600 may give a node
RandomXY == {<<10, 20>>, <<30, 40>>}

\* the starting positions (lines 155-161): node.x || Math.random() * 800,
\* node.y || Math.random() * 600, where || takes the right side for
\* undefined and for 0
forceSeed(nodes, random) ==
    [i \in DOMAIN nodes |->
        LET xy == nodes[i].xy IN
        <<IF xy # <<>> /\ xy[1] # 0 THEN xy[1] ELSE random[i][1],
          IF xy # <<>> /\ xy[2] # 0 THEN xy[2] ELSE random[i][2]>>]

MaxCalls == 2          \* layout calls in one behaviour

\* the x/y the nodes of the first call come with: none, zero, or some
IncomingXY == {<<>>, <<0, 0>>, <<50, 70>>}

LayoutNodeListsXY ==
    {[i \in 1 .. n |-> LayoutNode(LayoutIds[i], xy)] :
        n \in 0 .. Len(LayoutIds), xy \in IncomingXY}

\* the edge lists of the calls: none, a chain, a cycle
LayoutCallEdges ==
    {<<>>,
     <<LayoutEdge("a", "b"), LayoutEdge("b", "c")>>,
     <<LayoutEdge("a", "b"), LayoutEdge("b", "c"), LayoutEdge("c", "a")>>}

\* the node list a caller passes next: the one it passed before, or the
\* one the previous call returned
NextInputs == {lay.nodes} \cup (IF lay.pc = "done" THEN {lay.result} ELSE {})

\* the state after fn(nodes, ...) has returned result
Done(fn, nodes, result) ==
    [pc |-> "done", fn |-> fn, nodes |-> nodes, edges |-> lay.edges,
     h |-> NoMaps, steps |-> 0, result |-> result]

HierarchicalLayout ==
    /\ lay.pc \in {"call", "done"} /\ Len(laid) < MaxCalls
    /\ \E nodes \in NextInputs :
          /\ lay' = Done("hierarchical", nodes, hierarchicalLayout(nodes, lay.edges))
          /\ laid' = Append(laid, Returned("hierarchical", 0, nodes, lay.edges,
                                           hierarchicalLayout(nodes, lay.edges)))
    /\ UNCHANGED <<histVars, canvasVars, dedup>>

\* forceDirectedLayout(nodes, edges, iterations): the draws of Math.random
\* are an input; with no iteration the simulation leaves every node where
\* it was seeded, with the default 50 it leaves it somewhere
ForceDirectedLayout ==
    /\ lay.pc \in {"call", "done"} /\ Len(laid) < MaxCalls
    /\ \E nodes \in NextInputs, iterations \in {0, 50} :
       \E random \in [DOMAIN nodes -> RandomXY] :
       \E raw \in IF iterations = 0 THEN {forceSeed(nodes, random)}
                  ELSE [DOMAIN nodes -> ForceRaw] :
          /\ lay' = [seed |-> forceSeed(nodes, random)]
                     @@ Done("forceDirected", nodes, forceDirectedLayout(nodes, raw))
          /\ laid' = Append(laid, Returned("forceDirected", iterations, nodes, lay.edges,
                                           forceDirectedLayout(nodes, raw)))
    /\ UNCHANGED <<histVars, canvasVars, dedup>>

CircularLayout ==
    /\ lay.pc \in {"call", "done"} /\ Len(laid) < MaxCalls
    /\ \E nodes \in NextInputs :
          /\ lay' = Done("circular", nodes, circularLayout(nodes, 300))
          /\ laid' = Append(laid, Returned("circular", 300, nodes, lay.edges,
                                           circularLayout(nodes, 300)))
    /\ UNCHANGED <<histVars, canvasVars, dedup>>

GridLayout ==
    /\ lay.pc \in {"call", "done"} /\ Len(laid) < MaxCalls
    /\ \E nodes \in NextInputs, columns \in {2, 4} :
          /\ lay' = Done("grid", nodes, gridLayout(nodes, columns, 200))
          /\ laid' = Append(laid, Returned("grid", columns, nodes, lay.edges,
                                           gridLayout(nodes, columns, 200)))
    /\ UNCHANGED <<histVars, canvasVars, dedup>>

LayoutsNext == HierarchicalLayout \/ ForceDirectedLayout \/ CircularLayout \/ GridLayout

InitLayouts ==
    /\ HistCreate(ObjA) /\ CanvasInit
    /\ laid = <<>> /\ NoRequests
    /\ \E nodes \in LayoutNodeListsXY, edges \in LayoutCallEdges :
          lay = Calling("none", nodes, edges)

\* a caller that applies layouts to one graph, one after the other
SpecLayouts == InitLayouts /\ [][LayoutsNext]_vars

\* C24: each of the four layouts returns an empty list for an empty node
\* list, and otherwise one node per input node, in the same order, with the
\* same id and with every attribute other than x and y equal to the
\* input's; the lists it was given are not modified.
C24_LayoutFrame ==
    lay.pc = "done" =>
        LET last == laid[Len(laid)] IN
        /\ lay.nodes = <<>> => lay.result = <<>>
        /\ Len(lay.result) = Len(lay.nodes)
        /\ \A i \in DOMAIN lay.nodes :
              /\ DOMAIN lay.result[i] = DOMAIN lay.nodes[i]
              /\ lay.result[i].id = lay.nodes[i].id
              /\ lay.result[i].text = lay.nodes[i].text
              /\ Len(lay.result[i].xy) = 2
        /\ lay.nodes = last.nodes
        /\ lay.edges = last.edges

\* each of the four layouts has returned for a three-node list
C24_Witness ==
    /\ lay.pc = "done" /\ Len(lay.nodes) = 3 /\ Len(laid) = 2
    /\ lay.fn = "forceDirected" /\ laid[1].fn = "circular"
    /\ lay.result[2].text = "claim b"
    /\ lay.nodes[2].xy # lay.result[2].xy

\* the same nodes as they are before they have any x/y
WithoutXY(nodes) == [i \in DOMAIN nodes |-> [nodes[i] EXCEPT !.xy = <<>>]]

\* C25: two calls of hierarchicalLayout, of circularLayout or of gridLayout
\* with the same node ids in the same order and the same edges return the
\* same positions, whatever the nodes' incoming x/y and whatever was
\* called before.
C25_LayoutDeterminism ==
    /\ \A i, j \in DOMAIN laid :
          (/\ laid[i].fn = laid[j].fn /\ laid[i].fn # "forceDirected"
           /\ laid[i].arg = laid[j].arg
           /\ idSeq(laid[i].nodes) = idSeq(laid[j].nodes)
           /\ laid[i].edges = laid[j].edges)
          => laid[i].pos = laid[j].pos
    /\ \A i \in DOMAIN laid :
          LET call == laid[i]
              bare == WithoutXY(call.nodes)
          IN  /\ call.fn = "hierarchical"
                    => call.pos = PositionsOf(hierarchicalLayout(bare, call.edges))
              /\ call.fn = "circular"
                    => call.pos = PositionsOf(circularLayout(bare, call.arg))
              /\ call.fn = "grid"
                    => call.pos = PositionsOf(gridLayout(bare, call.arg, 200))

\* gridLayout was called twice on the same ids, the second time on nodes
\* that carry other x/y than the first time
C25_Witness ==
    /\ Len(laid) = 2
    /\ laid[1].fn = "grid" /\ laid[2].fn = "grid" /\ laid[1].arg = laid[2].arg
    /\ Len(laid[1].nodes) = 3
    /\ PositionsOf(laid[1].nodes) # PositionsOf(laid[2].nodes)
    /\ laid[1].nodes[1].xy # <<>>

\* node drags on a page whose node list changes under the gesture: by the
\* list's Delete button after a release the canvas did not see, and by an
\* extract response that arrives while the button is down
InitDrag == InitCanvas

DragNext ==
    \/ MouseMove \/ NodeMouseDown \/ NodeMouseUp \/ SvgMouseUp \/ MouseUpLost
    \/ NodeClick \/ SvgClick \/ DeleteNode \/ Extract \/ ExtractArrives

SpecDrag == InitDrag /\ [][DragNext]_vars

\* one event handler threw
Throws(calls) == \E k \in DOMAIN calls : calls[k].cb = "TypeError"

\* C26: a pointer-up that ends a node drag never throws, in particular when
\* the dragged node was removed from the nodes prop between pointer-down
\* and pointer-up; the machine ends in idle and no position is reported for
\* the removed node.
C26_DragEndNeverThrows ==
    [][ (/\ ev'.name \in {"svgMouseUp", "nodeMouseUp"}
         /\ canvas.dragId # NullId)
        => /\ ~Throws(ev'.calls)
           /\ canvas'.dragId = NullId
           /\ canvas.dragId \notin LiveIds(host)
                => ~ReportsMove(ev'.calls, canvas.dragId) ]_vars

\* C27: after the position sync for the current nodes prop and after any
\* later pointer events, the position map has an entry for exactly the ids
\* of the current nodes.
C27_PosMatchesNodes == DOMAIN canvas.pos = LiveIds(host)

\* the gestures of plain mode on a one-node graph, under a host that
\* passes onToggleSelect and under one that does not
InitRelease ==
    /\ HistCreate(ObjA)
    /\ NoLayout
    /\ \E onToggleSelect \in BOOLEAN :
          CanvasWith(<<[id |-> "n1", xy |-> <<100, 100>>]>>, <<>>, 0, ZoomUnit, FALSE,
                     onToggleSelect)

ReleaseNext ==
    \/ MouseMove \/ NodeMouseDown \/ SvgMouseDown \/ NodeMouseUp \/ SvgMouseUp
    \/ NodeClick \/ SvgClick

SpecRelease == InitRelease /\ [][ReleaseNext]_vars

\* C28: a pointer-up on the canvas ends an active lasso (start and end
\* cleared) whether or not onToggleSelect was supplied, ends an active pan
\* and ends an active node drag, so that none of them continues on later
\* pointer moves.
C28_PointerUpReturnsToIdle ==
    [][ ev'.name \in {"svgMouseUp", "nodeMouseUp"}
        => /\ canvas'.lassoStart = Null
           /\ canvas'.lassoEnd = Null
           /\ ~canvas'.isPanning
           /\ canvas'.dragId = NullId ]_vars

(***************************************************************************)
(* Claims about the gesture entries, the pan and drag arithmetic, the      *)
(* history window, the default slots and the request deduplicator          *)
(***************************************************************************)

\* C31: a pointer-down on a node with shift held starts an edge drag with
\* that node recorded as source and does not start a node drag, both when
\* the edgeMode flag is on and when it is off.
C31_ShiftPressStartsEdgeDrag ==
    [][ (ev'.name = "nodeMouseDown" /\ ev'.shiftKey)
        => /\ canvas'.edgeDragFrom = ev'.target
           /\ canvas'.dragId = canvas.dragId ]_vars

\* C32: in edge mode neither the click that sets the pending source nor the
\* click on a second node that completes the edge request invokes
\* onToggleSelect.
C32_EdgeClicksDoNotToggle ==
    [][ (/\ ev'.name = "nodeClick"
         /\ track.phase = "edgeUp"
         /\ track.id = ev'.target)
        => TogglesOf(ev'.calls, ev'.target) = 0 ]_vars

\* the pointer gestures of plain mode on a one-node graph, from the pans an
\* earlier pan gesture and the zooms the zoom control leave behind; every
\* pointer event is delivered
InitPan ==
    /\ HistCreate(ObjA)
    /\ NoLayout
    /\ \E px \in PanXs, z \in {ZoomUnit, zoomIn(ZoomUnit)} :
          CanvasAt(<<[id |-> "n1", xy |-> <<100, 100>>]>>, <<>>, px, z, FALSE)

PanNext ==
    \/ MouseMove \/ NodeMouseDown \/ SvgMouseDown \/ NodeMouseUp \/ SvgMouseUp
    \/ NodeClick \/ SvgClick

SpecPan == InitPan /\ [][PanNext]_vars

C34_DragFollowsPointer ==
    (track.phase = "down" /\ ev.name = "mouseMove")
    => /\ DOMAIN canvas.pos = DOMAIN track.pos
       /\ \A id \in DOMAIN track.pos :
             canvas.pos[id] =
                IF id = track.id
                THEN Pt(track.pos[id].x + (mouse.x - track.px),
                        track.pos[id].y + (mouse.y - track.py))
                ELSE track.pos[id]

\* C35: the reference time used by the throttle advances only when a set
\* call pushes a new history entry; a set call that is a deep-equal no-op
\* does not restart the 500 ms window, so a different value set right
\* after it is still recorded as a new history entry.
C35_WindowFromLastRecorded ==
    [][ histOp'.name = "set"
        => /\ lastRecordedTime' # lastRecordedTime
                => state'.past = Append(state.past, state.present)
           /\ (/\ histOp.name = "set"
               /\ now - lastPushTime >= THROTTLE_MS
               /\ ~DeepEqual(histOp'.v, state.present))
                => state'.past = Append(state.past, state.present) ]_vars

\* C36: after the hook is created with initial state s0, or after reset(s0),
\* the first set(x) with x different from s0, forced or not, leaves s0
\* reachable by undo: a following undo() makes present equal to s0.
C36_StartIsRecoverable ==
    [][ (/\ histOp.name \in {"create", "reset"}
         /\ histOp'.name = "set"
         /\ ~DeepEqual(histOp'.v, state.present))
        => undo(state').present = state.present ]_vars

\* the hook within the first throttle window after its creation: un-forced
\* sets replace present, forced sets record
TimelineNext == Set \/ Undo \/ Redo \/ Reset

SpecTimeline == Init /\ [][TimelineNext]_vars

\* the whole timeline of a history state
Timeline(cur) == cur.past \o <<cur.present>> \o cur.future

\* C37: when past is non-empty, undo() followed by redo() restores past,
\* present and future exactly; when future is non-empty, redo() followed by
\* undo() does too; and the sequence past ++ [present] ++ future is
\* unchanged by every undo() and every redo().
C37_UndoRedoInverse ==
    [][ /\ histOp'.name = "undo"
           => /\ Timeline(state') = Timeline(state)
              /\ state.past # <<>> => redo(state') = state
        /\ histOp'.name = "redo"
           => /\ Timeline(state') = Timeline(state)
              /\ state.future # <<>> => undo(state') = state ]_vars

\* an undo has just acted in the middle of a timeline of three different
\* values
C37_Witness ==
    /\ histOp.name = "undo"
    /\ Len(state.past) = 1 /\ Len(state.future) = 1
    /\ state.past[1] # state.present
    /\ state.present # state.future[1]

\* every node of the list carries a numeric x and y
Positioned(nodes) == \A i \in DOMAIN nodes : nodes[i].xy # <<>>

\* C38: for every node that has a numeric x and y, x = 0 and y = 0
\* included, the starting position of forceDirectedLayout's simulation is
\* exactly that (x, y), so two runs from the same fully-positioned layout
\* return the same positions.
C38_ForceSeedsFromPositions ==
    /\ (lay.pc = "done" /\ lay.fn = "forceDirected")
          => \A i \in DOMAIN lay.nodes :
                lay.nodes[i].xy # <<>> => lay.seed[i] = lay.nodes[i].xy
    /\ \A j, k \in DOMAIN laid :
          (/\ laid[j].fn = "forceDirected" /\ laid[k].fn = "forceDirected"
           /\ laid[j].arg = 0 /\ laid[k].arg = 0
           /\ laid[j].nodes = laid[k].nodes /\ Positioned(laid[j].nodes)
           /\ laid[j].edges = laid[k].edges)
          => laid[j].pos = laid[k].pos

\* C39: any two different nodes that arrive without explicit x/y, in the
\* same nodes update or in different updates, are given different default
\* positions by the position-sync step, and a node that already has a
\* position keeps it when other nodes are added.
C39_DefaultSlotsDistinct ==
    [][ ev'.name \in {"addNode", "extractArrives"}
        => /\ \A i, j \in DOMAIN host'.nodes :
                 (/\ i # j
                  /\ host'.nodes[i].xy = <<>> /\ host'.nodes[j].xy = <<>>
                  /\ host'.nodes[i].id \in DOMAIN canvas'.pos
                  /\ host'.nodes[j].id \in DOMAIN canvas'.pos)
                 => canvas'.pos[host'.nodes[i].id] # canvas'.pos[host'.nodes[j].id]
           /\ ev'.name = "addNode"
                 => \A id \in DOMAIN canvas.pos :
                       id \in DOMAIN canvas'.pos /\ canvas'.pos[id] = canvas.pos[id] ]_vars

(***************************************************************************)
(* ---------------  RequestDeduplicator (utils/graphLayout.ts)  ---------- *)
(***************************************************************************)

Keys == {"k1", "k2"}

MaxDedupes == 4     \* dedupe calls in one behaviour

\* the keys with an entry in pendingRequests
PendingKeys(d) == DOMAIN d.pendingRequests

\* the executions of fn for key that have not settled
InFlightFor(d, key) == {r \in d.inFlight : r.key = key}

\* dedupe(key, fn) (lines 390-403): the stored promise when the map has the
\* key, otherwise fn is called and its promise is stored under the key; a
\* promise is named by the number of the dedupe call that created it
dedupe(d, key) ==
    IF key \in PendingKeys(d)
    THEN [d EXCEPT !.calls = @ + 1,
                   !.op = [name |-> "dedupe", key |-> key, ran |-> FALSE,
                           returned |-> d.pendingRequests[key]]]
    ELSE LET promise == d.calls + 1 IN
         [d EXCEPT !.pendingRequests = (key :> promise) @@ @,
                   !.inFlight = @ \cup {[promise |-> promise, key |-> key]},
                   !.calls = promise,
                   !.op = [name |-> "dedupe", key |-> key, ran |-> TRUE,
                           returned |-> promise]]

\* the promise of one execution of fn settles and its finally callback runs
\* (lines 397-400): pendingRequests.delete(key)
settle(d, r, ok) ==
    [d EXCEPT !.pendingRequests = [k \in PendingKeys(d) \ {r.key} |-> @[k]],
              !.inFlight = @ \ {r},
              !.op = [name |-> "settle", key |-> r.key, promise |-> r.promise,
                      ok |-> ok]]

\* clear() (lines 408-410)
clear(d) == [d EXCEPT !.pendingRequests = <<>>, !.op = [name |-> "clear"]]

Dedupe ==
    \E key \in Keys :
        /\ dedup.calls < MaxDedupes
        /\ dedup' = dedupe(dedup, key)
        /\ UNCHANGED <<histVars, canvasVars, lay, laid>>

Settle ==
    \E r \in dedup.inFlight, ok \in BOOLEAN :
        /\ dedup' = settle(dedup, r, ok)
        /\ UNCHANGED <<histVars, canvasVars, lay, laid>>

Clear ==
    /\ dedup' = clear(dedup)
    /\ UNCHANGED <<histVars, canvasVars, lay, laid>>

DedupeNext == Dedupe \/ Settle \/ Clear

InitDedupe == HistCreate(ObjA) /\ CanvasInit /\ NoLayout

SpecDedupe == InitDedupe /\ [][DedupeNext]_vars

\* C40: under any interleaving of dedupe calls, request completions and
\* clear() calls, at most one execution of fn per key is in flight at a
\* time; a dedupe call made while a request for the same key is in flight
\* returns that request's promise without calling fn; and when a request
\* settles its key is removed, so the next dedupe for that key runs fn again.
C40_OneRequestPerKey ==
    [][ /\ \A key \in Keys : Cardinality(InFlightFor(dedup', key)) <= 1
        /\ \A key \in Keys :
              (/\ dedup'.op.name = "dedupe" /\ dedup'.op.key = key
               /\ InFlightFor(dedup, key) # {})
              => /\ ~dedup'.op.ran
                 /\ \E r \in InFlightFor(dedup, key) : dedup'.op.returned = r.promise
        /\ dedup'.op.name = "settle" => dedup'.op.key \notin PendingKeys(dedup')
        /\ (/\ dedup.op.name = "settle" /\ dedup'.op.name = "dedupe"
            /\ dedup'.op.key = dedup.op.key /\ InFlightFor(dedup, dedup.op.key) = {})
           => dedup'.op.ran ]_vars

=============================================================================
